---- MODULE Spec2Model ----
(***************************************************************************)
(* Memory Retrieval & Curation Engine (memori-typescript).                 *)
(*                                                                         *)
(* The category extractor is modelled from its two source revisions:       *)
(*   build 1 = src/src/core/domain/search/filtering/                       *)
(*             CategoryMetadataExtractor.ts                                *)
(*   build 2 = src/unnamed/part_002 (same class, with loop guards, the     *)
(*             text cap and the expansion/suggestion phases)               *)
(* Strings are sequences of one-character strings, so that normalisation,  *)
(* sorting, JSON rendering and key truncation are computed, not assumed.   *)
(* Confidences and scores are integers in ten-thousandths (0.9 = 9000).    *)
(***************************************************************************)
EXTENDS Integers, Sequences, FiniteSets, TLC

----------------------------------------------------------------------------
(* Characters and strings                                                  *)

LowerLetters ==
  {"a","b","c","d","e","f","g","h","i","j","k","l","m",
   "n","o","p","q","r","s","t","u","v","w","x","y","z"}

UpperLetters ==
  {"A","B","C","D","E","F","G","H","I","J","K","L","M",
   "N","O","P","Q","R","S","T","U","V","W","X","Y","Z"}

DigitChars == {"0","1","2","3","4","5","6","7","8","9"}

\* UTF-16 code-unit order of the characters the model uses
CodeOrder ==
  <<" ","\"","+",",","-","/",
    "0","1","2","3","4","5","6","7","8","9",":",
    "A","B","C","D","E","F","G","H","I","J","K","L","M",
    "N","O","P","Q","R","S","T","U","V","W","X","Y","Z",
    "[","]","_",
    "a","b","c","d","e","f","g","h","i","j","k","l","m",
    "n","o","p","q","r","s","t","u","v","w","x","y","z",
    "{","}">>

Code(c) == CHOOSE i \in 1..Len(CodeOrder) : CodeOrder[i] = c

UpperSeq == <<"A","B","C","D","E","F","G","H","I","J","K","L","M",
              "N","O","P","Q","R","S","T","U","V","W","X","Y","Z">>
LowerSeq == <<"a","b","c","d","e","f","g","h","i","j","k","l","m",
              "n","o","p","q","r","s","t","u","v","w","x","y","z">>

\* String.prototype.toLowerCase, one character
LowerChar(c) ==
  IF c \in UpperLetters
    THEN LowerSeq[CHOOSE i \in 1..26 : UpperSeq[i] = c]
    ELSE c

\* String.prototype.toLowerCase
ToLowerCase(s) == SubSeq([i \in 1..Len(s) |-> LowerChar(s[i])], 1, Len(s))

\* String.prototype.substring(0, n)
Substring0(s, n) ==
  IF n <= 0 THEN <<>> ELSE IF n >= Len(s) THEN s ELSE SubSeq(s, 1, n)

\* Array.prototype.join(sep) on an array of strings
RECURSIVE Join(_, _)
Join(parts, sep) ==
  IF Len(parts) = 0 THEN <<>>
  ELSE IF Len(parts) = 1 THEN parts[1]
  ELSE parts[1] \o sep \o Join(Tail(parts), sep)

\* a < b in code-unit order (the default comparator of Array.prototype.sort)
RECURSIVE StrLess(_, _)
StrLess(a, b) ==
  IF Len(b) = 0 THEN FALSE
  ELSE IF Len(a) = 0 THEN TRUE
  ELSE IF Code(a[1]) < Code(b[1]) THEN TRUE
  ELSE IF Code(a[1]) > Code(b[1]) THEN FALSE
  ELSE StrLess(Tail(a), Tail(b))

\* insertion of x into a sorted array, after the elements not greater than it
RECURSIVE InsertSorted(_, _)
InsertSorted(x, arr) ==
  IF Len(arr) = 0 THEN <<x>>
  ELSE IF StrLess(x, arr[1]) THEN <<x>> \o arr
  ELSE <<arr[1]>> \o InsertSorted(x, Tail(arr))

\* Array.prototype.sort() with the default comparator (stable)
RECURSIVE SortStrings(_)
SortStrings(arr) ==
  IF Len(arr) = 0 THEN <<>>
  ELSE InsertSorted(arr[Len(arr)], SortStrings(SubSeq(arr, 1, Len(arr) - 1)))

\* Number -> decimal digits, as JSON.stringify prints a non-negative integer
RECURSIVE Decimal(_)
Decimal(n) ==
  IF n < 10 THEN <<CodeOrder[7 + n]>>
  ELSE Decimal(n \div 10) \o <<CodeOrder[7 + (n % 10)]>>

----------------------------------------------------------------------------
(* String literals of the source                                           *)

S_General == <<"G","e","n","e","r","a","l">>
S_Work == <<"W","o","r","k">>
S_Team == <<"T","e","a","m">>
S_Projects == <<"P","r","o","j","e","c","t","s">>
S_Languages == <<"L","a","n","g","u","a","g","e","s">>
S_Frameworks == <<"F","r","a","m","e","w","o","r","k","s">>
S_Databases == <<"D","a","t","a","b","a","s","e","s">>
S_Cloud == <<"C","l","o","u","d">>
S_Personal == <<"P","e","r","s","o","n","a","l">>
S_Education == <<"E","d","u","c","a","t","i","o","n">>
S_TimeSensitive == <<"T","i","m","e","-","S","e","n","s","i","t","i","v","e">>
S_Cpp == <<"C","+","+">>
P_ProgLang == <<"P","r","o","g","r","a","m","m","i","n","g","/","L","a","n","g","u","a","g","e","s">>
P_ProgFrame == <<"P","r","o","g","r","a","m","m","i","n","g","/","F","r","a","m","e","w","o","r","k","s">>
P_TechDb == <<"T","e","c","h","n","o","l","o","g","y","/","D","a","t","a","b","a","s","e","s">>
P_TechCloud == <<"T","e","c","h","n","o","l","o","g","y","/","C","l","o","u","d">>
P_PersLife == <<"P","e","r","s","o","n","a","l","/","L","i","f","e","s","t","y","l","e">>
P_WorkProj == <<"W","o","r","k","/","P","r","o","j","e","c","t","s">>
P_LearnEdu == <<"L","e","a","r","n","i","n","g","/","E","d","u","c","a","t","i","o","n">>
P_PrioTime == <<"P","r","i","o","r","i","t","y","/","T","i","m","e","-","S","e","n","s","i","t","i","v","e">>
W_python == <<"p","y","t","h","o","n">>
W_java == <<"j","a","v","a">>
W_react == <<"r","e","a","c","t">>
W_redis == <<"r","e","d","i","s">>
W_aws == <<"a","w","s">>
W_like == <<"l","i","k","e">>
W_project == <<"p","r","o","j","e","c","t">>
W_work == <<"w","o","r","k">>
W_deadline == <<"d","e","a","d","l","i","n","e">>
W_learn == <<"l","e","a","r","n">>
W_urgent == <<"u","r","g","e","n","t">>

----------------------------------------------------------------------------
(* normalizeCategory                                                       *)

\* String.prototype.trim (the model's only whitespace is the space)
RECURSIVE TrimLeft(_)
TrimLeft(s) ==
  IF Len(s) > 0 /\ s[1] = " " THEN TrimLeft(Tail(s)) ELSE s

RECURSIVE TrimRight(_)
TrimRight(s) ==
  IF Len(s) > 0 /\ s[Len(s)] = " " THEN TrimRight(SubSeq(s, 1, Len(s) - 1)) ELSE s

Trim(s) == TrimRight(TrimLeft(s))

\* .replace(/[^a-z0-9\s-]/g, '')
RECURSIVE StripSpecial(_)
StripSpecial(s) ==
  IF Len(s) = 0 THEN <<>>
  ELSE IF s[1] \in LowerLetters \cup DigitChars \cup {" ", "-"}
    THEN <<s[1]>> \o StripSpecial(Tail(s))
    ELSE StripSpecial(Tail(s))

\* .replace(/c+/g, '-'): every maximal run of the character c becomes one '-'
RECURSIVE RunsToDash(_, _)
RunsToDash(s, c) ==
  IF Len(s) = 0 THEN <<>>
  ELSE IF s[1] = c
    THEN IF Len(s) > 1 /\ s[2] = c
           THEN RunsToDash(Tail(s), c)
           ELSE <<"-">> \o RunsToDash(Tail(s), c)
    ELSE <<s[1]>> \o RunsToDash(Tail(s), c)

normalizeCategory(cfg, category) ==
  IF ~cfg.enableCategoryNormalization THEN category
  ELSE RunsToDash(RunsToDash(StripSpecial(Trim(ToLowerCase(category))), " "), "-")

----------------------------------------------------------------------------
(* Optional values: `undefined`/null is <<>>, a present value v is <<v>>   *)

None == <<>>
Some(v) == <<v>>
IsSome(o) == Len(o) = 1

\* the element of a one-element set; {e(x) : x \in {v}} names the value v
\* inside e, as a `const x = v` does
The(S) == CHOOSE x \in S : TRUE

----------------------------------------------------------------------------
(* Hierarchy store (CategoryHierarchyManager).  Its source file is not in  *)
(* src/; it is modelled from spec.md 3 and 4.1 and from the calls of       *)
(* tests/unit/core/SimpleHierarchyTest.test.ts.                            *)

HM_MaxDepth == 5

\* a store is the sequence of its nodes in insertion order
EmptyHierarchy == <<>>

\* index of the first TRUE of a sequence of booleans, 0 if none
FirstTrue(flags) ==
  IF \E i \in 1..Len(flags) : flags[i]
    THEN CHOOSE i \in 1..Len(flags) : flags[i] /\ \A j \in 1..(i - 1) : ~flags[j]
    ELSE 0

\* getNode(pathOrName): case-insensitive lookup by name, then by full path
HM_getNode(h, pathOrName) ==
  LET key == ToLowerCase(pathOrName)
      ById(n) == n.id = key
      ByPath(n) == ToLowerCase(n.fullPath) = key
  IN IF FirstTrue([k_ \in 1..Len(h) |-> ById(h[k_])]) # 0 THEN Some(h[FirstTrue([k_ \in 1..Len(h) |-> ById(h[k_])])])
     ELSE IF FirstTrue([k_ \in 1..Len(h) |-> ByPath(h[k_])]) # 0 THEN Some(h[FirstTrue([k_ \in 1..Len(h) |-> ByPath(h[k_])])])
     ELSE None

\* getAllNodes()
HM_getAllNodes(h) == h

\* addCategory that gives every node the depth and the path of a root
HM_addCategory_AsRoot(h, name, parentPath) ==
  LET id == ToLowerCase(name)
      parent == IF IsSome(parentPath) THEN HM_getNode(h, parentPath[1]) ELSE None
  IN IF IsSome(HM_getNode(h, name)) THEN h
     ELSE IF ~IsSome(parentPath)
       THEN Append(h, [id |-> id, name |-> name, parentId |-> None,
                       depth |-> 0, fullPath |-> name])
     ELSE IF ~IsSome(parent) THEN h
     ELSE IF parent[1].depth + 1 > HM_MaxDepth THEN h
     ELSE Append(h, [id |-> id, name |-> name, parentId |-> Some(parent[1].id),
                     depth |-> 0, fullPath |-> name])

\* addCategory(name, parentPath?): fails fast (store unchanged) on an unknown
\* parent, on a depth beyond the maximum, and on a name already present
HM_addCategory(h, name, parentPath) ==
  LET id == ToLowerCase(name)
      parent == IF IsSome(parentPath) THEN HM_getNode(h, parentPath[1]) ELSE None
  IN IF IsSome(HM_getNode(h, name)) THEN h
     ELSE IF ~IsSome(parentPath)
       THEN Append(h, [id |-> id, name |-> name, parentId |-> None,
                       depth |-> 0, fullPath |-> name])
     ELSE IF ~IsSome(parent) THEN h
     ELSE IF parent[1].depth + 1 > HM_MaxDepth THEN h
     ELSE Append(h, [id |-> id, name |-> name, parentId |-> Some(parent[1].id),
                     depth |-> parent[1].depth + 1,
                     fullPath |-> parent[1].fullPath \o <<"/">> \o name])

\* clear()
HM_clear(h) == EmptyHierarchy

\* node.children: the nodes inserted under the node, in insertion order
HM_children(h, node) ==
  SelectSeq(h, LAMBDA n : IsSome(n.parentId) /\ n.parentId[1] = node.id)

\* getAncestors(name): the chain of parents, ordered root first
RECURSIVE HM_ancestorsOf(_, _, _)
HM_ancestorsOf(h, node, fuel) ==
  IF ~IsSome(node.parentId) \/ fuel = 0 THEN <<>>
  ELSE LET p == HM_getNode(h, node.parentId[1])
       IN IF IsSome(p) THEN Append(HM_ancestorsOf(h, p[1], fuel - 1), p[1]) ELSE <<>>

HM_getAncestors(h, name) ==
  LET n == HM_getNode(h, name)
  IN IF IsSome(n) THEN HM_ancestorsOf(h, n[1], HM_MaxDepth + 1) ELSE <<>>

\* exportHierarchy(): name and parent path of every node, in insertion order
HM_exportHierarchy(h) ==
  [i \in 1..Len(h) |->
     [name |-> h[i].name,
      parentPath |-> IF IsSome(h[i].parentId)
                       THEN Some(HM_getNode(h, h[i].parentId[1])[1].fullPath)
                       ELSE None]]

\* importHierarchy(exported): every exported category is added in order,
\* under the rules of addCategory
RECURSIVE HM_importHierarchy(_, _)
HM_importHierarchy(h, exported) ==
  IF Len(exported) = 0 THEN h
  ELSE HM_importHierarchy(HM_addCategory(h, exported[1].name, exported[1].parentPath),
                          Tail(exported))

\* validateHierarchy(): every parent is a node of the store, no id occurs
\* twice and no depth is beyond the maximum
HM_validateHierarchy(h) ==
  [isValid |->
     /\ \A i \in 1..Len(h) : IsSome(h[i].parentId) => IsSome(HM_getNode(h, h[i].parentId[1]))
     /\ \A i, j \in 1..Len(h) : h[i].id = h[j].id => i = j
     /\ \A i \in 1..Len(h) : h[i].depth <= HM_MaxDepth]

----------------------------------------------------------------------------
(* Extraction rules                                                        *)

\* A pattern is a RegExp object or a pattern string.  kind "words" is an
\* alternation of literal words (between \b when wb), kind "star" is c*
\* for one character c (it matches the empty string), kind "invalid" is a
\* string that `new RegExp` rejects.
WordsPattern(words, isGlobal) ==
  [kind |-> "words", words |-> words, wb |-> TRUE, ch |-> " ",
   isString |-> FALSE, global |-> isGlobal]

predefinedPatterns ==
  << [name |-> "programming_languages", pattern |-> WordsPattern(<<W_python, W_java>>, FALSE),
      category |-> S_Languages, hierarchySuggestion |-> Some(P_ProgLang), hierarchical |-> TRUE,
      confidence |-> 8000, priority |-> 10, enabled |-> TRUE],
     [name |-> "frameworks", pattern |-> WordsPattern(<<W_react>>, FALSE),
      category |-> S_Frameworks, hierarchySuggestion |-> Some(P_ProgFrame), hierarchical |-> TRUE,
      confidence |-> 8000, priority |-> 9, enabled |-> TRUE],
     [name |-> "databases", pattern |-> WordsPattern(<<W_redis>>, FALSE),
      category |-> S_Databases, hierarchySuggestion |-> Some(P_TechDb), hierarchical |-> TRUE,
      confidence |-> 8000, priority |-> 8, enabled |-> TRUE],
     [name |-> "cloud_platforms", pattern |-> WordsPattern(<<W_aws>>, FALSE),
      category |-> S_Cloud, hierarchySuggestion |-> Some(P_TechCloud), hierarchical |-> TRUE,
      confidence |-> 8000, priority |-> 7, enabled |-> TRUE],
     [name |-> "personal_info", pattern |-> WordsPattern(<<W_like>>, FALSE),
      category |-> S_Personal, hierarchySuggestion |-> Some(P_PersLife), hierarchical |-> TRUE,
      confidence |-> 6000, priority |-> 5, enabled |-> TRUE],
     [name |-> "work_projects", pattern |-> WordsPattern(<<W_project, W_work, W_deadline>>, FALSE),
      category |-> S_Work, hierarchySuggestion |-> Some(P_WorkProj), hierarchical |-> TRUE,
      confidence |-> 7000, priority |-> 6, enabled |-> TRUE],
     [name |-> "learning_education", pattern |-> WordsPattern(<<W_learn>>, FALSE),
      category |-> S_Education, hierarchySuggestion |-> Some(P_LearnEdu), hierarchical |-> TRUE,
      confidence |-> 7000, priority |-> 6, enabled |-> TRUE],
     [name |-> "time_sensitive", pattern |-> WordsPattern(<<W_urgent, W_deadline>>, FALSE),
      category |-> S_TimeSensitive, hierarchySuggestion |-> Some(P_PrioTime), hierarchical |-> TRUE,
      confidence |-> 7000, priority |-> 8, enabled |-> TRUE] >>

----------------------------------------------------------------------------
(* RegExp.prototype.exec                                                   *)

WordChars == LowerLetters \cup UpperLetters \cup DigitChars \cup {"_"}

\* does word w occur in text at 0-based position i (with \b on both sides)
WordAt(text, w, i, wb) ==
  /\ i + Len(w) <= Len(text)
  /\ \A k \in 1..Len(w) : text[i + k] = w[k]
  /\ wb => /\ (i = 0 \/ text[i] \notin WordChars)
           /\ (i + Len(w) = Len(text) \/ text[i + Len(w) + 1] \notin WordChars)

\* length of the run of character c in text from 0-based position i
RECURSIVE RunLength(_, _, _)
RunLength(text, c, i) ==
  IF i < Len(text) /\ text[i + 1] = c THEN 1 + RunLength(text, c, i + 1) ELSE 0

\* length of the match of pattern p at 0-based position i, -1 if none
MatchLengthAt(p, text, i) ==
  IF p.kind = "star" THEN RunLength(text, p.ch, i)
  ELSE LET hits == {k \in 1..Len(p.words) : WordAt(text, p.words[k], i, p.wb)}
       IN IF hits = {} THEN -1
          ELSE Len(p.words[CHOOSE k \in hits : \A j \in hits : k <= j])

\* the first 0-based position in lo..hi at which pattern p matches, -1 if
\* none (the scan of the text from left to right)
RECURSIVE FirstMatchIn(_, _, _, _)
FirstMatchIn(p, text, lo, hi) ==
  IF lo > hi THEN -1
  ELSE IF lo = hi THEN (IF MatchLengthAt(p, text, lo) >= 0 THEN lo ELSE -1)
  ELSE The({ IF left >= 0 THEN left ELSE FirstMatchIn(p, text, ((lo + hi) \div 2) + 1, hi)
             : left \in {FirstMatchIn(p, text, lo, (lo + hi) \div 2)} })

\* regex.exec(text) with regex.lastIndex = lastIndex: the match (index and
\* length) or null, and the lastIndex the call leaves behind.  Only a
\* global regex reads and writes lastIndex.
RegExpExec(p, text, lastIndex) ==
  The({ IF first < 0
          THEN [found |-> FALSE, index |-> 0, length |-> 0,
                lastIndex |-> IF p.global THEN 0 ELSE lastIndex]
          ELSE The({ [found |-> TRUE, index |-> first, length |-> length,
                      lastIndex |-> IF p.global THEN first + length ELSE lastIndex]
                     : length \in {MatchLengthAt(p, text, first)} })
        : first \in {FirstMatchIn(p, text, IF p.global THEN lastIndex ELSE 0, Len(text))} })

----------------------------------------------------------------------------
(* findMatches                                                             *)

\* backstop on the unrolling of the match loop
LoopFuel == 60

\* calculatePositionConfidence (ten-thousandths)
calculatePositionConfidence(position, textLength) ==
  IF textLength = 0 THEN 5000
  ELSE IF position * 10 < textLength THEN 12000
  ELSE IF position * 10 < 3 * textLength THEN 10000
  ELSE IF position * 2 < textLength THEN 8000
  ELSE 6000

Min(a, b) == IF a < b THEN a ELSE b

\* the entry findMatches pushes for one match (rule: the rule whose loop
\* pushed it, kept to count the matches of each rule)
MatchEntry(rule, text, index) ==
  [rule |-> rule.name, category |-> rule.category,
   confidence |-> Min((rule.confidence * calculatePositionConfidence(index, Len(text))) \div 10000, 10000),
   matchPosition |-> index]

\* typeof rule.pattern === 'string' ? new RegExp(rule.pattern, 'gi') : rule.pattern
CompiledPattern(rule) ==
  IF rule.pattern.isString THEN [rule.pattern EXCEPT !.global = TRUE] ELSE rule.pattern

LoopStart(lastIndex) ==
  [re |-> lastIndex, last |-> 0, count |-> 0, empties |-> 0,
   results |-> <<>>, iters |-> 0, done |-> FALSE, hung |-> FALSE]

\* One pass through the while loop of build 1 (CategoryMetadataExtractor.ts
\* 483-505).  st.re is regex.lastIndex, st.last the local lastIndex,
\* st.count matchCount, which this loop never increments; st.done: the loop
\* has been left.  A pass that neither leaves the loop nor changes
\* (regex.lastIndex, lastIndex) repeats for ever: hung.
MatchStep1(text, rule, st) ==
  The({ LET st1 == [st EXCEPT !.re = m.lastIndex, !.done = TRUE]
            st2 == [st EXCEPT !.re = m.lastIndex, !.last = m.index,
                              !.results = Append(@, MatchEntry(rule, text, m.index)),
                              !.iters = @ + 1]
        IN IF ~m.found \/ ~(st.count < 100) THEN st1
           ELSE IF m.index = st.last /\ m.length = 0 THEN [st1 EXCEPT !.iters = @ + 1]
           ELSE IF m.index + m.length >= Len(text) THEN [st2 EXCEPT !.done = TRUE]
           ELSE IF st2.re = st.re /\ st2.last = st.last
             THEN [st2 EXCEPT !.done = TRUE, !.hung = TRUE]
           ELSE st2
        : m \in {RegExpExec(CompiledPattern(rule), text, st.re)} })

\* up to `fuel` passes through the loop of build 1, the first half of them
\* before the second
RECURSIVE MatchLoop1(_, _, _, _)
MatchLoop1(text, rule, st, fuel) ==
  IF st.done \/ fuel = 0 THEN st
  ELSE IF fuel = 1 THEN MatchStep1(text, rule, st)
  ELSE The({ MatchLoop1(text, rule, half, fuel - (fuel \div 2))
             : half \in {MatchLoop1(text, rule, st, fuel \div 2)} })

\* One pass through the while loop of build 2 (part_002 552-591); timeoutAt
\* is the pass at which Date.now() - startTime exceeds maxTime (0: never).
MatchStep2(text, rule, st, timeoutAt) ==
  The({ LET st1 == [st EXCEPT !.re = m.lastIndex, !.iters = @ + 1]
            stE == [st EXCEPT !.re = m.lastIndex, !.iters = @ + 1, !.empties = @ + 1]
            st2 == [st EXCEPT !.re = m.lastIndex, !.iters = @ + 1,
                              !.empties = 0, !.last = m.index,
                              !.results = Append(@, MatchEntry(rule, text, m.index)),
                              !.count = @ + 1]
        IN IF ~m.found \/ ~(st.count < 50)
             THEN [st EXCEPT !.re = m.lastIndex, !.done = TRUE]
           ELSE IF timeoutAt # 0 /\ st1.iters >= timeoutAt THEN [st1 EXCEPT !.done = TRUE]
           ELSE IF m.length = 0
             THEN IF stE.empties > 3 THEN [stE EXCEPT !.done = TRUE]
                  ELSE [stE EXCEPT !.re = @ + 1]
           ELSE IF m.index = st.last /\ st.count > 0
             THEN [st1 EXCEPT !.empties = 0, !.done = TRUE]
           ELSE IF m.index + m.length >= Len(text) THEN [st2 EXCEPT !.done = TRUE]
           ELSE st2
        : m \in {RegExpExec(CompiledPattern(rule), text, st.re)} })

\* up to `fuel` passes through the loop of build 2
RECURSIVE MatchLoop2(_, _, _, _, _)
MatchLoop2(text, rule, st, fuel, timeoutAt) ==
  IF st.done \/ fuel = 0 THEN st
  ELSE IF fuel = 1 THEN MatchStep2(text, rule, st, timeoutAt)
  ELSE The({ MatchLoop2(text, rule, half, fuel - (fuel \div 2), timeoutAt)
             : half \in {MatchLoop2(text, rule, st, fuel \div 2, timeoutAt)} })


\* findMatches(text, rule) of build b, started with regex.lastIndex =
\* lastIndex for a RegExp-object pattern.  threw: `new RegExp` raised;
\* hung: the loop does not end; re: the lastIndex left in the rule's RegExp.
findMatches(b, text, rule, lastIndex, timeoutAt) ==
  LET fresh == rule.pattern.isString
  IN IF b = 2 /\ Len(text) = 0
       THEN [threw |-> FALSE, hung |-> FALSE, results |-> <<>>, iters |-> 0, re |-> lastIndex]
     ELSE IF rule.pattern.kind = "invalid"
       THEN [threw |-> TRUE, hung |-> FALSE, results |-> <<>>, iters |-> 0, re |-> lastIndex]
     ELSE The({ [threw |-> FALSE, hung |-> run.hung \/ ~run.done,
                 results |-> run.results, iters |-> run.iters,
                 re |-> IF fresh THEN lastIndex
                        ELSE IF b = 2 /\ run.done THEN 0 ELSE run.re]
                : run \in {IF b = 1
                             THEN MatchLoop1(text, rule,
                                             LoopStart(IF fresh THEN 0 ELSE lastIndex),
                                             LoopFuel)
                             ELSE MatchLoop2(text, rule, LoopStart(0), LoopFuel,
                                             timeoutAt)} })

----------------------------------------------------------------------------
(* extractFromPatterns                                                     *)

maxTextLength == 10000

\* [content, summary || '', ...tags, ...keywords] (entities and topics are
\* absent from the model's inputs)
TextParts(m) ==
  <<m.content[1], IF IsSome(m.summary) THEN m.summary[1] ELSE <<>>>>
    \o (IF IsSome(m.tags) THEN m.tags[1] ELSE <<>>)
    \o (IF IsSome(m.keywords) THEN m.keywords[1] ELSE <<>>)

\* build 2: the loop that builds textToSearch under the size limit
RECURSIVE BuildCapped(_, _)
BuildCapped(parts, acc) ==
  IF Len(parts) = 0 THEN acc
  ELSE IF Len(acc) + Len(parts[1]) > maxTextLength
    THEN acc \o <<" ">> \o Substring0(parts[1], maxTextLength - Len(acc))
  ELSE BuildCapped(Tail(parts),
                   acc \o (IF Len(acc) > 0 THEN <<" ">> ELSE <<>>) \o parts[1])

textToSearch(b, m) ==
  IF b = 1 THEN ToLowerCase(Join(TextParts(m), <<" ">>))
  ELSE ToLowerCase(BuildCapped(TextParts(m), <<>>))

\* no timeout observed in any rule
NoTimeout == [rule |-> "none", at |-> 0]

\* the loop over the enabled rules; acc.re maps a rule name to the lastIndex
\* of its RegExp object, acc.iters to the iterations its match loop made.
\* Build 1 lets an exception of findMatches escape; build 2 skips the rule.
RECURSIVE RunRules(_, _, _, _, _)
RunRules(b, text, rules, acc, tmo) ==
  IF Len(rules) = 0 \/ acc.threw \/ acc.hung THEN acc
  ELSE IF ~rules[1].enabled THEN RunRules(b, text, Tail(rules), acc, tmo)
  ELSE RunRules(b, text, Tail(rules),
         The({ [threw |-> r.threw /\ b = 1,
                hung |-> r.hung,
                results |-> acc.results \o r.results,
                re |-> [acc.re EXCEPT ![rules[1].name] = r.re],
                iters |-> [acc.iters EXCEPT ![rules[1].name] = r.iters]]
               : r \in {findMatches(b, text, rules[1], acc.re[rules[1].name],
                                    IF tmo.rule = rules[1].name THEN tmo.at ELSE 0)} }),
         tmo)

\* the Map keyed by result.category that keeps the entry of highest confidence
RECURSIVE UniqueByCategory(_, _)
UniqueByCategory(results, acc) ==
  IF Len(results) = 0 THEN acc
  ELSE IF Len(results) = 1
    THEN LET r == results[1]
             IsIt(e) == e.category = r.category
             i == FirstTrue([k_ \in 1..Len(acc) |-> IsIt(acc[k_])])
         IN IF i = 0 THEN Append(acc, r)
            ELSE IF acc[i].confidence < r.confidence THEN [acc EXCEPT ![i] = r]
            ELSE acc
  ELSE The({ UniqueByCategory(SubSeq(results, (Len(results) \div 2) + 1, Len(results)), half)
             : half \in {UniqueByCategory(SubSeq(results, 1, Len(results) \div 2), acc)} })

extractFromPatterns(b, rules, m, re, tmo) ==
  The({ The({ [threw |-> run.threw, hung |-> run.hung, re |-> run.re, iters |-> run.iters,
               text |-> text, found |-> run.results,
               results |-> UniqueByCategory(run.results, <<>>)]
              : run \in {RunRules(b, text, rules,
                                  [threw |-> FALSE, hung |-> FALSE, results |-> <<>>,
                                   re |-> re, iters |-> [n \in DOMAIN re |-> 0]],
                                  tmo)} })
        : text \in {textToSearch(b, m)} })

----------------------------------------------------------------------------
(* Hierarchy resolution                                                    *)

\* findHierarchySuggestion
findHierarchySuggestion(rules, categoryName) ==
  LET Suggests(r) == r.enabled /\ r.hierarchical /\ IsSome(r.hierarchySuggestion)
                       /\ r.category = categoryName
      i == FirstTrue([k_ \in 1..Len(rules) |-> Suggests(rules[k_])])
  IN IF i = 0 THEN None ELSE rules[i].hierarchySuggestion

\* number of occurrences of character c in s
RECURSIVE CountChar(_, _)
CountChar(s, c) ==
  IF Len(s) = 0 THEN 0 ELSE (IF s[1] = c THEN 1 ELSE 0) + CountChar(Tail(s), c)

\* createVirtualHierarchyNode
createVirtualHierarchyNode(cfg, categoryName) ==
  [id |-> normalizeCategory(cfg, categoryName), name |-> categoryName,
   parentId |-> None, depth |-> 0, fullPath |-> categoryName]

\* resolveCategoryHierarchy: exact match, then the rule's suggestion (a node
\* of the store or a virtual node carrying the suggested path), then a
\* virtual node of depth 0
resolveCategoryHierarchy(h, cfg, rules, categoryName) ==
  LET exactMatch == HM_getNode(h, categoryName)
      suggestion == findHierarchySuggestion(rules, categoryName)
      suggestionNode == HM_getNode(h, suggestion[1])
  IN IF IsSome(exactMatch) THEN exactMatch[1]
     ELSE IF IsSome(suggestion)
       THEN IF IsSome(suggestionNode) THEN suggestionNode[1]
            ELSE [id |-> RunsToDash(ToLowerCase(categoryName), " "),
                  name |-> categoryName, parentId |-> None,
                  depth |-> CountChar(suggestion[1], "/"),
                  fullPath |-> suggestion[1]]
     ELSE createVirtualHierarchyNode(cfg, categoryName)

----------------------------------------------------------------------------
(* calculateHierarchicalRelevanceScore                                     *)

\* String.prototype.includes
Includes(text, w) == \E i \in 0..Len(text) : WordAt(text, w, i, FALSE)

\* (text.match(new RegExp(w, 'g')) || []).length for a literal w
RECURSIVE CountOccurrences(_, _, _)
CountOccurrences(text, w, from) ==
  IF Len(w) = 0 THEN Len(text) + 1
  ELSE LET hits == {i \in from..Len(text) : WordAt(text, w, i, FALSE)}
           first == CHOOSE i \in hits : \A j \in hits : i <= j
       IN IF hits = {} THEN 0 ELSE 1 + CountOccurrences(text, w, first + Len(w))

\* `new RegExp(source)` raises SyntaxError ("nothing to repeat") on a
\* quantifier that follows nothing or another quantifier
InvalidRegExpSource(source) ==
  \E i \in 1..Len(source) : source[i] = "+" /\ (i = 1 \/ source[i - 1] = "+")

calculateHierarchicalRelevanceScore(category, categoryNode, m) ==
  LET categoryLower == ToLowerCase(category)
      occurrences == CountOccurrences(ToLowerCase(m.content[1]), categoryLower, 0)
      inSummary == IsSome(m.summary) /\ Len(m.summary[1]) > 0
                     /\ Includes(ToLowerCase(m.summary[1]), categoryLower)
      tagsAndEntities == ToLowerCase(Join(IF IsSome(m.tags) THEN m.tags[1] ELSE <<>>, <<" ">>))
      score == 5000 + Min(occurrences * 1000, 3000)
                 + (IF inSummary THEN 2000 ELSE 0)
                 + (IF Includes(tagsAndEntities, categoryLower) THEN 2000 ELSE 0)
                 + (IF Len(categoryNode.fullPath) > 0
                      THEN 1000 + (IF categoryNode.depth > 0
                                     THEN Min(categoryNode.depth * 500, 2000) ELSE 0)
                      ELSE 0)
  IN Min(score, 10000)

----------------------------------------------------------------------------
(* performExtraction                                                       *)

\* allCategories.set(key, entry): a Map keeps the position of an existing key
MapSet(map, entry) ==
  LET IsIt(e) == e.normalizedName = entry.normalizedName
      i == FirstTrue([k_ \in 1..Len(map) |-> IsIt(map[k_])])
  IN IF i = 0 THEN Append(map, entry) ELSE [map EXCEPT ![i] = entry]

MapGet(map, key) ==
  LET IsIt(e) == e.normalizedName = key
      i == FirstTrue([k_ \in 1..Len(map) |-> IsIt(map[k_])])
  IN IF i = 0 THEN None ELSE Some(map[i])

\* would building the entry of this category raise: the hierarchy lookup
\* fails (hmFault) or the category name is not a valid RegExp source
EntryThrows(hmFault, category) ==
  hmFault \/ InvalidRegExpSource(ToLowerCase(category))

\* the entry stored for one of metadata.existingCategories
MetadataEntry(h, cfg, rules, m, category) ==
  The({ [name |-> category, hierarchyPath |-> categoryNode.fullPath,
         confidence |-> 9000, source |-> "metadata",
         normalizedName |-> normalizeCategory(cfg, category),
         relevanceScore |-> calculateHierarchicalRelevanceScore(category, categoryNode, m)]
        : categoryNode \in {resolveCategoryHierarchy(h, cfg, rules, category)} })

RECURSIVE AddMetadataCategories(_, _, _, _, _, _)
AddMetadataCategories(h, cfg, rules, m, categories, map) ==
  IF Len(categories) = 0 THEN map
  ELSE AddMetadataCategories(h, cfg, rules, m, Tail(categories),
                             MapSet(map, MetadataEntry(h, cfg, rules, m, categories[1])))

\* the entry stored for a pattern result
PatternEntry(h, cfg, rules, m, result) ==
  The({ [name |-> result.category, hierarchyPath |-> categoryNode.fullPath,
         confidence |-> result.confidence, source |-> "pattern",
         normalizedName |-> normalizeCategory(cfg, result.category),
         relevanceScore |->
           calculateHierarchicalRelevanceScore(result.category, categoryNode, m)]
        : categoryNode \in {resolveCategoryHierarchy(h, cfg, rules, result.category)} })

RECURSIVE AddPatternCategories(_, _, _, _, _, _)
AddPatternCategories(h, cfg, rules, m, results, map) ==
  IF Len(results) = 0 THEN map
  ELSE LET existing == MapGet(map, normalizeCategory(cfg, results[1].category))
       IN AddPatternCategories(h, cfg, rules, m, Tail(results),
            IF ~IsSome(existing) \/ existing[1].confidence < results[1].confidence
              THEN MapSet(map, PatternEntry(h, cfg, rules, m, results[1]))
              ELSE map)


\* baseHierarchy.split('/').pop() || baseHierarchy
RECURSIVE LastSegment(_, _)
LastSegment(path, i) ==
  IF i = 0 THEN path
  ELSE IF path[i] = "/" THEN SubSeq(path, i + 1, Len(path))
  ELSE LastSegment(path, i - 1)

parentCategoryOf(baseHierarchy) ==
  LET seg == LastSegment(baseHierarchy, Len(baseHierarchy))
  IN IF Len(seg) = 0 THEN baseHierarchy ELSE seg

\* applyHierarchicalPatternExpansion (build 2), at most maxExpanded = 5
RECURSIVE applyHierarchicalPatternExpansion(_, _, _, _)
applyHierarchicalPatternExpansion(cfg, rules, categories, expanded) ==
  IF Len(categories) = 0 \/ Len(expanded) >= 5 THEN expanded
  ELSE LET category == categories[1]
           Made(r) == r.enabled /\ r.hierarchical /\ r.category = category.name
           i == FirstTrue([k_ \in 1..Len(rules) |-> Made(rules[k_])])
           base == rules[i].hierarchySuggestion[1]
           one == [name |-> parentCategoryOf(base), hierarchyPath |-> base,
                   confidence |-> (category.confidence * 7) \div 10,
                   source |-> "hierarchy_suggestion",
                   normalizedName |-> normalizeCategory(cfg, parentCategoryOf(base)),
                   relevanceScore |-> (category.relevanceScore * 7) \div 10]
       IN applyHierarchicalPatternExpansion(cfg, rules, Tail(categories),
            IF i # 0 /\ IsSome(rules[i].hierarchySuggestion)
                 /\ parentCategoryOf(base) # category.name
              THEN Append(expanded, one) ELSE expanded)

\* getSiblingCategories
getSiblingCategories(h, categoryNode) ==
  LET parentNode == HM_getNode(h, categoryNode.parentId[1])
  IN IF ~IsSome(categoryNode.parentId) THEN <<>>
     ELSE IF ~IsSome(parentNode) THEN <<>>
     ELSE SelectSeq(HM_children(h, parentNode[1]), LAMBDA child : child.id # categoryNode.id)

\* suggestRelatedCategories (build 2): up to maxSuggestions = 3 siblings,
\* then the parent if fewer than 3 siblings were suggested
suggestRelatedCategories(h, category) ==
  LET categoryNode == HM_getNode(h, category.name)
      siblings == getSiblingCategories(h, categoryNode[1])
      taken == SubSeq(siblings, 1, Min(Len(siblings), 3))
      ancestors == HM_getAncestors(h, category.name)
      parent == ancestors[Len(ancestors)]
      FromSibling(sibling) ==
        [name |-> sibling.name, hierarchyPath |-> sibling.fullPath,
         confidence |-> (category.confidence * 6) \div 10,
         source |-> "hierarchy_suggestion", normalizedName |-> sibling.id,
         relevanceScore |-> (category.relevanceScore * 7) \div 10]
  IN IF Len(category.hierarchyPath) = 0 THEN <<>>
     ELSE IF ~IsSome(categoryNode) THEN <<>>
     ELSE [k \in 1..Len(taken) |-> FromSibling(taken[k])]
            \o (IF Len(taken) < 3 /\ Len(ancestors) > 0
                  THEN <<[name |-> parent.name, hierarchyPath |-> parent.fullPath,
                          confidence |-> (category.confidence * 8) \div 10,
                          source |-> "hierarchy_suggestion", normalizedName |-> parent.id,
                          relevanceScore |-> (category.relevanceScore * 8) \div 10]>>
                  ELSE <<>>)

\* flatMap(cat => suggestRelatedCategories(cat))
RECURSIVE AllSuggestions(_, _)
AllSuggestions(h, categories) ==
  IF Len(categories) = 0 THEN <<>>
  ELSE suggestRelatedCategories(h, categories[1]) \o AllSuggestions(h, Tail(categories))

\* insertion into an array sorted by confidence descending, after its equals
RECURSIVE InsertByConfidence(_, _)
InsertByConfidence(x, arr) ==
  IF Len(arr) = 0 THEN <<x>>
  ELSE IF x.confidence > arr[1].confidence THEN <<x>> \o arr
  ELSE <<arr[1]>> \o InsertByConfidence(x, Tail(arr))

\* extractedCategories.sort((a, b) => b.confidence - a.confidence), stable
RECURSIVE SortByConfidence(_)
SortByConfidence(arr) ==
  IF Len(arr) = 0 THEN <<>>
  ELSE InsertByConfidence(arr[Len(arr)], SortByConfidence(SubSeq(arr, 1, Len(arr) - 1)))

RECURSIVE SumConfidence(_)
SumConfidence(arr) ==
  IF Len(arr) = 0 THEN 0 ELSE arr[1].confidence + SumConfidence(Tail(arr))

\* the tail of performExtraction with the comparator of the sort reversed
\* (a.confidence - b.confidence)
BuildResult_Ascending(cfg, extractedCategories) ==
  LET descending == SortByConfidence(extractedCategories)
      sorted == [i \in 1..Len(descending) |-> descending[Len(descending) + 1 - i]]
      passing == SelectSeq(sorted, LAMBDA cat : cat.confidence >= cfg.confidenceThreshold)
      filteredCategories == SubSeq(passing, 1, Min(Len(passing), cfg.maxCategoriesPerMemory))
  IN [categories |-> filteredCategories,
      primaryCategory |-> IF Len(filteredCategories) > 0 THEN filteredCategories[1].name
                          ELSE S_General,
      confidence |-> IF Len(filteredCategories) > 0
                       THEN SumConfidence(filteredCategories) \div Len(filteredCategories)
                       ELSE 0,
      fallback |-> FALSE,
      totalCategoriesFound |-> Len(extractedCategories)]

\* the tail of performExtraction: sort, threshold, limit, primary, average
BuildResult(cfg, extractedCategories) ==
  LET sorted == SortByConfidence(extractedCategories)
      passing == SelectSeq(sorted, LAMBDA cat : cat.confidence >= cfg.confidenceThreshold)
      filteredCategories == SubSeq(passing, 1, Min(Len(passing), cfg.maxCategoriesPerMemory))
  IN [categories |-> filteredCategories,
      primaryCategory |-> IF Len(filteredCategories) > 0 THEN filteredCategories[1].name
                          ELSE S_General,
      confidence |-> IF Len(filteredCategories) > 0
                       THEN SumConfidence(filteredCategories) \div Len(filteredCategories)
                       ELSE 0,
      fallback |-> FALSE,
      totalCategoriesFound |-> Len(extractedCategories)]

\* createFallbackResult (hierarchy lookup assumed to succeed)
createFallbackResult(h, cfg, rules, m) ==
  LET fallbackCategory ==
        IF IsSome(m.existingCategories) /\ Len(m.existingCategories[1]) > 0
             /\ Len(m.existingCategories[1][1]) > 0
          THEN m.existingCategories[1][1] ELSE S_General
      categoryNode == resolveCategoryHierarchy(h, cfg, rules, fallbackCategory)
  IN [categories |-> <<[name |-> fallbackCategory, hierarchyPath |-> categoryNode.fullPath,
                        confidence |-> 3000, source |-> "metadata",
                        normalizedName |-> normalizeCategory(cfg, fallbackCategory),
                        relevanceScore |-> 5000]>>,
      primaryCategory |-> fallbackCategory,
      confidence |-> 3000,
      fallback |-> TRUE,
      totalCategoriesFound |-> 0]


\* performExtraction of build b on metadata m (already sorted in place by
\* generateCacheKey).  re maps rule names to RegExp lastIndex; tmo is the
\* timeout the clock produces; hmFault: hierarchyManager.getNode raises.
\* status "ok": the promise resolves with result (normal or, after the
\* inner catch, the fallback); "threw": it rejects (the fallback raised
\* too); "hung": a match loop never ends.
\* (extractFromML resolves to [] and validateCategoryHierarchy only collects
\* warnings: neither changes the categories.)
performExtraction(b, h, cfg, rules, m, re, tmo, hmFault) ==
  LET metaCats == IF cfg.enableMetadataExtraction /\ IsSome(m.existingCategories)
                    THEN m.existingCategories[1] ELSE <<>>
      MetaBad(c) == EntryThrows(hmFault, c)
      metaThrows == (\E k_ \in 1..Len(metaCats) : MetaBad(metaCats[k_]))
      noPat == [threw |-> FALSE, hung |-> FALSE, re |-> re,
                iters |-> [n \in DOMAIN re |-> 0], text |-> <<>>,
                found |-> <<>>, results |-> <<>>]
  IN The({
       LET PatBad(r) == EntryThrows(hmFault, r.category)
           patThrows == pat.threw \/ (\E k_ \in 1..Len(pat.results) : PatBad(pat.results[k_]))
           base == [re |-> pat.re, iters |-> pat.iters, text |-> pat.text,
                    found |-> pat.found, candidates |-> <<>>]
       IN IF pat.hung
            THEN base @@ [status |-> "hung", result |-> None]
          ELSE IF metaThrows \/ patThrows
            THEN IF hmFault
                   THEN base @@ [status |-> "threw", result |-> None]
                   ELSE base @@ [status |-> "ok",
                                 result |-> Some(createFallbackResult(h, cfg, rules, m))]
          ELSE The({ The({ The({
                 [base EXCEPT !.candidates = (map2 \o expanded) \o suggestions]
                   @@ [status |-> "ok",
                       result |-> Some(BuildResult(cfg, (map2 \o expanded) \o suggestions))]
                 : suggestions \in
                     {IF b = 2 /\ cfg.enableCategorySuggestions
                        THEN AllSuggestions(h, (map2 \o expanded) \o expanded)
                        ELSE <<>>} })
                 : expanded \in
                     {IF b = 2 /\ cfg.enableHierarchicalExpansion
                        THEN applyHierarchicalPatternExpansion(cfg, rules, map2, <<>>)
                        ELSE <<>>} })
                 : map2 \in
                     {AddPatternCategories(h, cfg, rules, m, pat.results,
                        AddMetadataCategories(h, cfg, rules, m, metaCats, <<>>))} })
       : pat \in {IF cfg.enablePatternExtraction /\ ~metaThrows
                    THEN extractFromPatterns(b, rules, m, re, tmo) ELSE noPat} })

----------------------------------------------------------------------------
(* generateCacheKey                                                        *)

J_Content == <<"{","\"","c","o","n","t","e","n","t","\"",":","\"">>
J_Summary == <<",","\"","s","u","m","m","a","r","y","\"",":","\"">>
J_Existing == <<",","\"","e","x","i","s","t","i","n","g","C","a","t","e","g","o","r","i","e","s","\"",":">>
J_Tags == <<",","\"","t","a","g","s","\"",":">>
J_HState == <<",","\"","h","i","e","r","a","r","c","h","y","S","t","a","t","e","\"",":">>
J_HVersion == <<",","\"","h","i","e","r","a","r","c","h","y","V","e","r","s","i","o","n","\"",":">>

\* JSON.stringify of an array of strings
JsonArray(arr) ==
  <<"[">> \o Join([i \in 1..Len(arr) |-> <<"\"">> \o arr[i] \o <<"\"">>], <<",">>) \o <<"]">>

\* getHierarchyVersion: sum of name.length + depth over all nodes
RECURSIVE getHierarchyVersion(_)
getHierarchyVersion(nodes) ==
  IF Len(nodes) = 0 THEN 0
  ELSE Len(nodes[1].name) + nodes[1].depth + getHierarchyVersion(Tail(nodes))

\* the metadata object after generateCacheKey: Array.prototype.sort sorts
\* existingCategories and tags in place
SortedInPlace(m) ==
  [m EXCEPT !.existingCategories = IF IsSome(@) THEN Some(SortStrings(@[1])) ELSE @,
            !.tags = IF IsSome(@) THEN Some(SortStrings(@[1])) ELSE @]

\* JSON.stringify(keyData); undefined properties are omitted
KeyJson(h, m) ==
  J_Content \o Substring0(m.content[1], 100) \o <<"\"">>
    \o (IF IsSome(m.summary) THEN J_Summary \o m.summary[1] \o <<"\"">> ELSE <<>>)
    \o (IF IsSome(m.existingCategories)
          THEN J_Existing \o JsonArray(SortStrings(m.existingCategories[1])) ELSE <<>>)
    \o (IF IsSome(m.tags) THEN J_Tags \o JsonArray(SortStrings(m.tags[1])) ELSE <<>>)
    \o J_HState \o Decimal(Len(HM_getAllNodes(h)))
    \o J_HVersion \o Decimal(getHierarchyVersion(HM_getAllNodes(h)))
    \o <<"}">>

\* length of the key: .toString('base64').substring(0, 32)
KeyLength == 32

\* generateCacheKey.  Base64 turns each 3 bytes into 4 characters, so the
\* first 32 characters of the base64 text are determined by, and determine,
\* the first 24 bytes of the JSON text: the key is modelled as those bytes.
generateCacheKey(h, m) == Substring0(KeyJson(h, m), (KeyLength \div 4) * 3)

----------------------------------------------------------------------------
(* The extractor as a state machine                                        *)

VARIABLES
  build,            \* which source revision runs (1 or 2)
  config,           \* this.config
  extractionRules,  \* this.extractionRules
  categoryCache,    \* this.categoryCache: a set of [key, result] entries
  hierarchy,        \* the hierarchy store the extractor holds a reference to
  reLastIndex,      \* lastIndex of the RegExp object of each rule
  pending,          \* extractCategories calls suspended at `await`
  blocked,          \* the thread is inside a match loop that never ends
  batch,            \* processBatchWithHierarchy calls suspended at `await`
  last              \* the call that has just acted, and what it produced

extractorVars ==
  <<build, config, extractionRules, categoryCache, hierarchy, reLastIndex,
    pending, blocked, batch, last>>

\* the state of the consolidation service and of the search orchestrator
VARIABLES
  store,            \* the records of the persistence capability, by id
  lockedBy,         \* the commit that holds each record id (0: none)
  attempts,         \* the consolidation attempts and where each stands
  txLast,           \* the consolidation call that has just returned
  nativeAvailable,  \* the native index is available and initialized
  searchLast        \* the search call that has just returned

consolidationVars == <<store, lockedBy, attempts, txLast>>

searchVars == <<nativeAvailable, searchLast>>

serviceVars == <<consolidationVars, searchVars>>

\* the defaults of the constructor (build 1 has no expansion switches; they
\* read as undefined, i.e. false)
DefaultConfig ==
  [enableMLExtraction |-> FALSE, enablePatternExtraction |-> TRUE,
   enableMetadataExtraction |-> TRUE, confidenceThreshold |-> 5000,
   maxCategoriesPerMemory |-> 3, enableCategoryNormalization |-> TRUE,
   enableHierarchicalExpansion |-> FALSE, enableCategorySuggestions |-> FALSE]

\* { ...this.config, ...newConfig }
MergeConfig(cfg, newConfig) == newConfig @@ cfg

\* custom rules a caller may configure or add
StringPattern(words) ==
  [kind |-> "words", words |-> words, wb |-> FALSE, ch |-> " ",
   isString |-> TRUE, global |-> TRUE]

W_note == <<"n","o","t","e">>
W_a == <<"a">>

CustomRules ==
  [custom_topic |->
     [name |-> "custom_topic", pattern |-> StringPattern(<<W_note>>),
      category |-> S_Team, hierarchySuggestion |-> None, hierarchical |-> FALSE,
      confidence |-> 10000, priority |-> 20, enabled |-> TRUE],
   custom_global |->
     [name |-> "custom_global",
      pattern |-> [kind |-> "words", words |-> <<W_aws>>, wb |-> FALSE, ch |-> " ",
                   isString |-> FALSE, global |-> TRUE],
      category |-> S_Cloud, hierarchySuggestion |-> None, hierarchical |-> FALSE,
      confidence |-> 8000, priority |-> 7, enabled |-> TRUE],
   custom_star |->
     [name |-> "custom_star",
      pattern |-> [kind |-> "star", words |-> <<>>, wb |-> FALSE, ch |-> "e",
                   isString |-> TRUE, global |-> TRUE],
      category |-> S_Projects, hierarchySuggestion |-> None, hierarchical |-> FALSE,
      confidence |-> 7000, priority |-> 3, enabled |-> TRUE],
   custom_empty |->
     [name |-> "custom_empty",
      pattern |-> [kind |-> "star", words |-> <<>>, wb |-> FALSE, ch |-> "q",
                   isString |-> FALSE, global |-> FALSE],
      category |-> S_Projects, hierarchySuggestion |-> None, hierarchical |-> FALSE,
      confidence |-> 7000, priority |-> 2, enabled |-> TRUE],
   custom_letter |->
     [name |-> "custom_letter", pattern |-> StringPattern(<<W_a>>),
      category |-> S_Team, hierarchySuggestion |-> None, hierarchical |-> FALSE,
      confidence |-> 8000, priority |-> 4, enabled |-> TRUE],
   custom_invalid |->
     [name |-> "custom_invalid",
      pattern |-> [kind |-> "invalid", words |-> <<>>, wb |-> FALSE, ch |-> " ",
                   isString |-> TRUE, global |-> TRUE],
      category |-> S_Team, hierarchySuggestion |-> None, hierarchical |-> FALSE,
      confidence |-> 8000, priority |-> 4, enabled |-> TRUE]]

RuleNames ==
  {predefinedPatterns[i].name : i \in 1..Len(predefinedPatterns)} \cup DOMAIN CustomRules

NoCall ==
  [op |-> "none", outcome |-> "none", fromCache |-> FALSE, result |-> None,
   m |-> None, candidates |-> <<>>, matches |-> <<>>, iters |-> <<>>, text |-> <<>>,
   tmo |-> NoTimeout, cacheBefore |-> 0, found |-> FALSE,
   ms |-> <<>>, results |-> <<>>, arg |-> None]

\* constructor(hierarchyManager, config): the rule list is the predefined
\* patterns followed by config.customExtractionRules, in that order; the
\* hierarchy store is the one the caller hands over
Constructed(b, partial, customExtractionRules) ==
  /\ build = b
  /\ config = MergeConfig(DefaultConfig, partial)
  /\ extractionRules = predefinedPatterns \o customExtractionRules
  /\ categoryCache = {}
  /\ reLastIndex = [n \in RuleNames |-> 0]
  /\ pending = <<>>
  /\ blocked = FALSE
  /\ batch = <<>>
  /\ last = NoCall


\* Map.prototype.has / get / set on the result cache
CacheHas(cache, key) == \E e \in cache : e.key = key
CacheGet(cache, key) == (CHOOSE e \in cache : e.key = key).result
CacheSet(cache, key, result) ==
  {e \in cache : e.key # key} \cup {[key |-> key, result |-> result]}

\* bound on the extractCategories calls suspended at the same time
MaxPending == 1

\* extractCategories(m), up to its `await`.  Building the key is outside the
\* try block: when it raises (metadata.content undefined) the call rejects.
\* A cache hit resolves at once.  Otherwise performExtraction runs; its
\* outcome is kept in `pending` until the continuation runs.  When
\* performExtraction rejects, the catch block builds the fallback, which
\* raises again under the same hierarchy fault: the call rejects.
ExtractBegin(m, tmo, hmFault) ==
  LET call == [NoCall EXCEPT !.op = "extractCategories", !.m = Some(m),
                             !.arg = Some(IF IsSome(m.content) THEN SortedInPlace(m) ELSE m),
                             !.cacheBefore = Cardinality(categoryCache)]
  IN /\ ~blocked
     /\ Len(pending) < MaxPending
     /\ IF ~IsSome(m.content)
          THEN /\ last' = [call EXCEPT !.outcome = "rejected"]
               /\ UNCHANGED <<reLastIndex, pending, blocked>>
        ELSE \E key \in {generateCacheKey(hierarchy, m)} :
          IF CacheHas(categoryCache, key) /\ config.enableCategoryNormalization
            THEN /\ last' = [call EXCEPT !.outcome = "resolved", !.fromCache = TRUE,
                                         !.result = Some(CacheGet(categoryCache, key))]
                 /\ UNCHANGED <<reLastIndex, pending, blocked>>
          ELSE \E px \in {performExtraction(build, hierarchy, config, extractionRules,
                                            SortedInPlace(m), reLastIndex, tmo, hmFault)} :
               /\ reLastIndex' = px.re
               /\ blocked' = (px.status = "hung")
               /\ pending' = IF px.status = "ok"
                               THEN Append(pending, [key |-> key, result |-> px.result[1],
                                                     m |-> m])
                               ELSE pending
               /\ last' = [call EXCEPT
                             !.outcome = IF px.status = "ok" THEN "computed"
                                         ELSE IF px.status = "hung" THEN "hung"
                                         ELSE "rejected",
                             !.result = px.result, !.candidates = px.candidates,
                             !.matches = px.found, !.tmo = tmo,
                             !.iters = px.iters, !.text = px.text]
     /\ UNCHANGED serviceVars /\ UNCHANGED <<batch, build, config, extractionRules, categoryCache, hierarchy>>

\* the continuation of extractCategories without the categoryCache.set
ExtractResume_NoStore ==
  /\ ~blocked
  /\ Len(pending) > 0
  /\ categoryCache' = categoryCache
  /\ pending' = Tail(pending)
  /\ last' = [NoCall EXCEPT !.op = "extractCategories", !.outcome = "resolved",
                            !.m = Some(pending[1].m), !.result = Some(pending[1].result),
                            !.arg = Some(SortedInPlace(pending[1].m)),
                            !.cacheBefore = Cardinality(categoryCache)]
  /\ UNCHANGED serviceVars /\ UNCHANGED <<batch, build, config, extractionRules, hierarchy, reLastIndex, blocked>>

\* the continuation of extractCategories after `await performExtraction`:
\* store the result if caching is on now, and resolve with it
ExtractResume ==
  /\ ~blocked
  /\ Len(pending) > 0
  /\ categoryCache' = IF config.enableCategoryNormalization
                        THEN CacheSet(categoryCache, pending[1].key, pending[1].result)
                        ELSE categoryCache
  /\ pending' = Tail(pending)
  /\ last' = [NoCall EXCEPT !.op = "extractCategories", !.outcome = "resolved",
                            !.m = Some(pending[1].m), !.result = Some(pending[1].result),
                            !.arg = Some(SortedInPlace(pending[1].m)),
                            !.cacheBefore = Cardinality(categoryCache)]
  /\ UNCHANGED serviceVars /\ UNCHANGED <<batch, build, config, extractionRules, hierarchy, reLastIndex, blocked>>

\* clearCache()
clearCache ==
  /\ ~blocked
  /\ categoryCache' = {}
  /\ last' = [NoCall EXCEPT !.op = "clearCache", !.outcome = "returned",
                            !.cacheBefore = Cardinality(categoryCache)]
  /\ UNCHANGED serviceVars /\ UNCHANGED <<batch, build, config, extractionRules, hierarchy, reLastIndex, pending, blocked>>

\* updateConfig(newConfig)
updateConfig(newConfig) ==
  /\ ~blocked
  /\ config' = MergeConfig(config, newConfig)
  /\ categoryCache' = {}
  /\ last' = [NoCall EXCEPT !.op = "updateConfig", !.outcome = "returned",
                            !.cacheBefore = Cardinality(categoryCache)]
  /\ UNCHANGED serviceVars /\ UNCHANGED <<batch, build, extractionRules, hierarchy, reLastIndex, pending, blocked>>

\* insertion into a list sorted by priority descending, after its equals
RECURSIVE InsertByPriority(_, _)
InsertByPriority(x, arr) ==
  IF Len(arr) = 0 THEN <<x>>
  ELSE IF x.priority > arr[1].priority THEN <<x>> \o arr
  ELSE <<arr[1]>> \o InsertByPriority(x, Tail(arr))

\* extractionRules.sort((a, b) => b.priority - a.priority), stable
RECURSIVE SortByPriority(_)
SortByPriority(arr) ==
  IF Len(arr) = 0 THEN <<>>
  ELSE InsertByPriority(arr[Len(arr)], SortByPriority(SubSeq(arr, 1, Len(arr) - 1)))

\* bound on the length of the rule list
MaxRules == 9

\* addExtractionRule(rule)
addExtractionRule(rule) ==
  /\ ~blocked
  /\ Len(extractionRules) < MaxRules
  /\ extractionRules' = SortByPriority(Append(extractionRules, rule))
  /\ categoryCache' = {}
  /\ last' = [NoCall EXCEPT !.op = "addExtractionRule", !.outcome = "returned",
                            !.cacheBefore = Cardinality(categoryCache)]
  /\ UNCHANGED serviceVars /\ UNCHANGED <<batch, build, config, hierarchy, reLastIndex, pending, blocked>>

\* removeExtractionRule as it would be without the categoryCache.clear() of
\* line 284
removeExtractionRule_NoClear(ruleName) ==
  LET Named(r) == r.name = ruleName
      index == FirstTrue([k_ \in 1..Len(extractionRules) |-> Named(extractionRules[k_])])
  IN /\ ~blocked
     /\ IF index # 0
          THEN extractionRules' = SubSeq(extractionRules, 1, index - 1)
                                    \o SubSeq(extractionRules, index + 1, Len(extractionRules))
          ELSE UNCHANGED extractionRules
     /\ UNCHANGED categoryCache
     /\ last' = [NoCall EXCEPT !.op = "removeExtractionRule", !.outcome = "returned",
                               !.found = (index # 0),
                               !.cacheBefore = Cardinality(categoryCache)]
     /\ UNCHANGED serviceVars /\ UNCHANGED <<batch, build, config, hierarchy, reLastIndex, pending, blocked>>

\* removeExtractionRule(ruleName): removes the first rule of that name and
\* clears the cache, or returns false and leaves everything as it is
removeExtractionRule(ruleName) ==
  LET Named(r) == r.name = ruleName
      index == FirstTrue([k_ \in 1..Len(extractionRules) |-> Named(extractionRules[k_])])
  IN /\ ~blocked
     /\ IF index # 0
          THEN /\ extractionRules' = SubSeq(extractionRules, 1, index - 1)
                                       \o SubSeq(extractionRules, index + 1, Len(extractionRules))
               /\ categoryCache' = {}
          ELSE UNCHANGED <<extractionRules, categoryCache>>
     /\ last' = [NoCall EXCEPT !.op = "removeExtractionRule", !.outcome = "returned",
                               !.found = (index # 0),
                               !.cacheBefore = Cardinality(categoryCache)]
     /\ UNCHANGED serviceVars /\ UNCHANGED <<batch, build, config, hierarchy, reLastIndex, pending, blocked>>

----------------------------------------------------------------------------
(* processBatchWithHierarchy                                               *)

\* calculateRelevanceScore (legacy method)
calculateRelevanceScore(category, m) ==
  LET categoryLower == ToLowerCase(category)
      occurrences == CountOccurrences(ToLowerCase(m.content[1]), categoryLower, 0)
      inSummary == IsSome(m.summary) /\ Len(m.summary[1]) > 0
                     /\ Includes(ToLowerCase(m.summary[1]), categoryLower)
      tagsAndEntities == ToLowerCase(Join(IF IsSome(m.tags) THEN m.tags[1] ELSE <<>>, <<" ">>))
      score == 5000 + Min(occurrences * 1000, 3000)
                 + (IF inSummary THEN 2000 ELSE 0)
                 + (IF Includes(tagsAndEntities, categoryLower) THEN 2000 ELSE 0)
  IN Min(score, 10000)

\* the value of 0 / 0: a number that lies in no interval and equals nothing
NaN == -1

\* hierarchyPath of a category that has none (undefined)
NoPath == <<>>

\* extractCategoriesPreliminary: the entries of metadata.existingCategories
RECURSIVE AddPreliminaryMetadata(_, _, _)
AddPreliminaryMetadata(cfg, categories, map) ==
  IF Len(categories) = 0 THEN map
  ELSE AddPreliminaryMetadata(cfg, Tail(categories),
         MapSet(map, [name |-> categories[1], hierarchyPath |-> NoPath,
                      confidence |-> 9000, source |-> "metadata",
                      normalizedName |-> normalizeCategory(cfg, categories[1]),
                      relevanceScore |-> 5000]))

\* extractCategoriesPreliminary: the entries of the pattern results
RECURSIVE AddPreliminaryPatterns(_, _, _, _)
AddPreliminaryPatterns(cfg, m, results, map) ==
  IF Len(results) = 0 THEN map
  ELSE LET existing == MapGet(map, normalizeCategory(cfg, results[1].category))
       IN AddPreliminaryPatterns(cfg, m, Tail(results),
            IF ~IsSome(existing) \/ existing[1].confidence < results[1].confidence
              THEN MapSet(map, [name |-> results[1].category, hierarchyPath |-> NoPath,
                                confidence |-> results[1].confidence, source |-> "pattern",
                                normalizedName |-> normalizeCategory(cfg, results[1].category),
                                relevanceScore |->
                                  calculateRelevanceScore(results[1].category, m)])
              ELSE map)

\* the tail of extractCategoriesPreliminary: sort, threshold, limit, primary
\* and the average, whose division has no guard
BuildPreliminary(cfg, extractedCategories) ==
  LET sorted == SortByConfidence(extractedCategories)
      passing == SelectSeq(sorted, LAMBDA cat : cat.confidence >= cfg.confidenceThreshold)
      filteredCategories == SubSeq(passing, 1, Min(Len(passing), cfg.maxCategoriesPerMemory))
  IN [categories |-> filteredCategories,
      primaryCategory |-> IF Len(filteredCategories) > 0 THEN filteredCategories[1].name
                          ELSE S_General,
      confidence |-> IF Len(filteredCategories) = 0 THEN NaN
                     ELSE SumConfidence(filteredCategories) \div Len(filteredCategories),
      fallback |-> FALSE,
      totalCategoriesFound |-> Len(extractedCategories)]

\* extractCategoriesPreliminary of build b on metadata m that has a content.
\* status "ok": the promise resolves with result; "threw": it rejects (a
\* rule raised in build 1, or the category is no valid RegExp source);
\* "hung": a match loop never ends.
extractCategoriesPreliminary(b, cfg, rules, m, re) ==
  LET metaCats == IF cfg.enableMetadataExtraction /\ IsSome(m.existingCategories)
                    THEN m.existingCategories[1] ELSE <<>>
      noPat == [threw |-> FALSE, hung |-> FALSE, re |-> re,
                iters |-> [n \in DOMAIN re |-> 0], text |-> <<>>,
                found |-> <<>>, results |-> <<>>]
  IN The({
       LET PatBad(r) == InvalidRegExpSource(ToLowerCase(r.category))
       IN IF pat.hung THEN [status |-> "hung", result |-> None, re |-> pat.re]
          ELSE IF pat.threw \/ (\E k_ \in 1..Len(pat.results) : PatBad(pat.results[k_]))
            THEN [status |-> "threw", result |-> None, re |-> pat.re]
          ELSE [status |-> "ok", re |-> pat.re,
                result |-> Some(BuildPreliminary(cfg,
                             AddPreliminaryPatterns(cfg, m, pat.results,
                               AddPreliminaryMetadata(cfg, metaCats, <<>>))))]
       : pat \in {IF cfg.enablePatternExtraction
                    THEN extractFromPatterns(b, rules, m, re, NoTimeout) ELSE noPat} })

\* metadatas.map(metadata => this.extractCategoriesPreliminary(metadata)):
\* the calls run one after the other; acc.re carries the lastIndex of the
\* RegExp objects from one to the next
RECURSIVE PreliminaryResults(_, _, _, _, _)
PreliminaryResults(b, cfg, rules, ms, acc) ==
  IF Len(ms) = 0 \/ acc.status = "hung" THEN acc
  ELSE PreliminaryResults(b, cfg, rules, Tail(ms),
         The({ [status |-> IF one.status = "ok" THEN acc.status ELSE one.status,
                re |-> one.re,
                results |-> IF one.status = "ok" THEN Append(acc.results, one.result[1])
                            ELSE acc.results]
               : one \in {extractCategoriesPreliminary(b, cfg, rules, ms[1], acc.re)} }))

\* the hierarchyPath batchResolveHierarchy and the final map give a category
WithHierarchy(h, cfg, rules, result) ==
  [result EXCEPT !.categories =
     [i \in 1..Len(result.categories) |->
        [result.categories[i] EXCEPT !.hierarchyPath =
           resolveCategoryHierarchy(h, cfg, rules, result.categories[i].name).fullPath]]]

\* bound on the processBatchWithHierarchy calls suspended at a time
MaxBatches == 1

\* processBatchWithHierarchy(metadatas) up to its first `await`: the
\* preliminary extraction of every metadata
ProcessBatchBegin(ms) ==
  LET call == [NoCall EXCEPT !.op = "processBatchWithHierarchy", !.ms = ms]
  IN /\ ~blocked
     /\ Len(batch) < MaxBatches
     /\ \E pre \in {PreliminaryResults(build, config, extractionRules, ms,
                                       [status |-> "ok", re |-> reLastIndex,
                                        results |-> <<>>])} :
          /\ reLastIndex' = pre.re
          /\ blocked' = (pre.status = "hung")
          /\ batch' = IF pre.status = "ok"
                        THEN Append(batch, [ms |-> ms, results |-> pre.results])
                        ELSE batch
          /\ last' = [call EXCEPT
                        !.outcome = IF pre.status = "ok" THEN "computed"
                                    ELSE IF pre.status = "hung" THEN "hung"
                                    ELSE "rejected"]
     /\ UNCHANGED serviceVars
     /\ UNCHANGED <<build, config, extractionRules, categoryCache, hierarchy, pending>>

\* the continuation of processBatchWithHierarchy that inserts the node it
\* resolved for the first category into the store
ProcessBatchResume_Insert ==
  /\ ~blocked
  /\ Len(batch) > 0
  /\ batch' = Tail(batch)
  /\ hierarchy' =
       IF Len(batch[1].results) > 0 /\ Len(batch[1].results[1].categories) > 0
         THEN HM_addCategory(hierarchy, batch[1].results[1].categories[1].name, None)
         ELSE hierarchy
  /\ last' = [NoCall EXCEPT
                !.op = "processBatchWithHierarchy", !.outcome = "resolved",
                !.ms = batch[1].ms,
                !.results = [i \in 1..Len(batch[1].results) |->
                               WithHierarchy(hierarchy, config, extractionRules,
                                             batch[1].results[i])]]
  /\ UNCHANGED serviceVars
  /\ UNCHANGED <<build, config, extractionRules, categoryCache, reLastIndex, pending, blocked>>

\* the continuation of processBatchWithHierarchy: resolve the hierarchy of
\* every category against the store as it is now, and return the results
ProcessBatchResume ==
  /\ ~blocked
  /\ Len(batch) > 0
  /\ batch' = Tail(batch)
  /\ hierarchy' = hierarchy
  /\ last' = [NoCall EXCEPT
                !.op = "processBatchWithHierarchy", !.outcome = "resolved",
                !.ms = batch[1].ms,
                !.results = [i \in 1..Len(batch[1].results) |->
                               WithHierarchy(hierarchy, config, extractionRules,
                                             batch[1].results[i])]]
  /\ UNCHANGED serviceVars
  /\ UNCHANGED <<build, config, extractionRules, categoryCache, reLastIndex, pending, blocked>>

\* hierarchyManager.addCategory(name, parentPath?) by the owner of the store
addCategory(name, parentPath) ==
  /\ ~blocked
  /\ hierarchy' = HM_addCategory(hierarchy, name, parentPath)
  /\ hierarchy' # hierarchy
  /\ last' = [NoCall EXCEPT !.op = "addCategory", !.outcome = "returned"]
  /\ UNCHANGED serviceVars /\ UNCHANGED <<batch, build, config, extractionRules, categoryCache, reLastIndex, pending, blocked>>

\* hierarchyManager.importHierarchy(exported)
importHierarchy(exported) ==
  /\ ~blocked
  /\ hierarchy' = HM_importHierarchy(hierarchy, exported)
  /\ last' = [NoCall EXCEPT !.op = "importHierarchy", !.outcome = "returned"]
  /\ UNCHANGED serviceVars /\ UNCHANGED <<batch, build, config, extractionRules, categoryCache, reLastIndex, pending, blocked>>

\* hierarchyManager.clear()
clearHierarchy ==
  /\ ~blocked
  /\ hierarchy # EmptyHierarchy
  /\ hierarchy' = HM_clear(hierarchy)
  /\ last' = [NoCall EXCEPT !.op = "clear", !.outcome = "returned"]
  /\ UNCHANGED serviceVars /\ UNCHANGED <<batch, build, config, extractionRules, categoryCache, reLastIndex, pending, blocked>>

----------------------------------------------------------------------------
(* Duplicate/Consolidation Service (spec 4.5, 5)                           *)

\* the records the persistence capability holds: ids 1..4 in namespace A,
\* id 5 in namespace B; no record has id 6
StoredIds == 1..5

InitialStore ==
  [id \in StoredIds |->
     [namespace |-> IF id = 5 THEN "B" ELSE "A", state |-> "live", into |-> 0,
      merged |-> <<>>]]

Plan(primaryId, memberIds) == [primaryId |-> primaryId, memberIds |-> memberIds]

NoPlan == Plan(0, {})

PlanIds(plan) == {plan.primaryId} \cup plan.memberIds

\* the ids of a set in ascending order
RECURSIVE IdsInOrder(_)
IdsInOrder(ids) ==
  IF ids = {} THEN <<>>
  ELSE LET least == CHOOSE x \in ids : \A y \in ids : x <= y
       IN <<least>> \o IdsInOrder(ids \ {least})

\* validateEligibility as it would be without the primaryId-in-memberIds
\* test
validateEligibility_NoSelfTest(s, locks, primaryId, memberIds) ==
  LET present == memberIds \cap DOMAIN s
      reasons ==
        (IF \E id \in {primaryId} \cup memberIds : id \notin DOMAIN s
           THEN {"an id does not exist"} ELSE {})
        \cup (IF Cardinality({s[m].namespace : m \in present}) > 1
                THEN {"members span more than one namespace"} ELSE {})
        \cup (IF \E m \in present : locks[m] # 0
                THEN {"a member is the target of an unresolved consolidation"} ELSE {})
  IN [isValid |-> reasons = {}, reasons |-> reasons]

\* validateEligibility(primaryId, memberIds) -> {isValid, reasons}
validateEligibility(s, locks, primaryId, memberIds) ==
  LET present == memberIds \cap DOMAIN s
      reasons ==
        (IF \E id \in {primaryId} \cup memberIds : id \notin DOMAIN s
           THEN {"an id does not exist"} ELSE {})
        \cup (IF primaryId \in memberIds
                THEN {"the primary is among the members"} ELSE {})
        \cup (IF Cardinality({s[m].namespace : m \in present}) > 1
                THEN {"members span more than one namespace"} ELSE {})
        \cup (IF \E m \in present : locks[m] # 0
                THEN {"a member is the target of an unresolved consolidation"} ELSE {})
  IN [isValid |-> reasons = {}, reasons |-> reasons]

Attempts == {1, 2}

NoAttempt ==
  [pc |-> "idle", plan |-> NoPlan, written |-> {}, before |-> InitialStore,
   calls |-> 0, succeeded |-> 0, raced |-> FALSE]

NoTx ==
  [op |-> "none", attempt |-> 0, plan |-> NoPlan, outcome |-> "none", error |-> "none",
   validation |-> [isValid |-> FALSE, reasons |-> {}], before |-> InitialStore,
   written |-> {}, call |-> 0, succeededBefore |-> 0, consolidated |-> 0]

ConsolidationIdle ==
  /\ store = InitialStore
  /\ lockedBy = [id \in StoredIds |-> 0]
  /\ attempts = [a \in Attempts |-> NoAttempt]
  /\ txLast = NoTx

\* Validate: the attempt moves on to its commit when the plan is eligible
\* and is aborted otherwise
Validate(a, plan) ==
  LET validation == validateEligibility(store, lockedBy, plan.primaryId, plan.memberIds)
  IN /\ attempts[a].pc = "idle"
     /\ attempts' = [attempts EXCEPT ![a].pc = IF validation.isValid THEN "validated"
                                               ELSE "aborted",
                                     ![a].plan = plan]
     /\ txLast' = [NoTx EXCEPT !.op = "validateEligibility", !.attempt = a, !.plan = plan,
                               !.outcome = "returned", !.validation = validation]
     /\ UNCHANGED <<store, lockedBy, searchVars, extractorVars>>

\* the transactional boundary without the test for ids held by another commit
HeldByOther_Never(a, ids) == FALSE

\* some id of the plan is inside the transactional boundary of another commit
HeldByOther(a, ids) == \E id \in ids \cap StoredIds : lockedBy[id] \notin {0, a}

\* commit without the test for records that are consolidated already
NotLive_Never(s, ids) == FALSE

\* some record of the plan has been consolidated already
NotLive(s, ids) == \E id \in ids \cap DOMAIN s : s[id].state # "live"

\* bound on the commit calls of one attempt
MaxCommits == 2

\* commit(primaryId, memberIds), up to its first write: it fails with
\* NotFound or Conflict and changes nothing, or enters the transactional
\* boundary around the records of the plan
CommitBegin(a) ==
  LET plan == attempts[a].plan
      ids == PlanIds(plan)
      error == IF \E id \in ids : id \notin DOMAIN store THEN "NotFound"
               ELSE IF HeldByOther(a, ids) \/ NotLive(store, ids) THEN "Conflict"
               ELSE "none"
      called == [attempts[a] EXCEPT !.calls = @ + 1, !.before = store, !.written = {},
                                    !.raced = HeldByOther(a, ids)]
  IN /\ attempts[a].pc \in {"validated", "committed", "failed"}
     /\ attempts[a].calls < MaxCommits
     /\ IF error # "none"
          THEN /\ attempts' = [attempts EXCEPT ![a] = [called EXCEPT !.pc = "failed"]]
               /\ txLast' = [NoTx EXCEPT !.op = "commit", !.attempt = a, !.plan = plan,
                                         !.outcome = "failed", !.error = error,
                                         !.before = store, !.call = called.calls,
                                         !.succeededBefore = called.succeeded]
               /\ UNCHANGED lockedBy
          ELSE /\ attempts' = [attempts EXCEPT ![a] = [called EXCEPT !.pc = "writing"]]
               /\ lockedBy' = [id \in StoredIds |-> IF id \in ids THEN a ELSE lockedBy[id]]
               /\ txLast' = NoTx
     /\ UNCHANGED <<store, searchVars, extractorVars>>

\* the write that marks the next member consolidated into the primary
CommitWriteMember(a) ==
  LET plan == attempts[a].plan
      left == plan.memberIds \ attempts[a].written
      m == IdsInOrder(left)[1]
  IN /\ attempts[a].pc = "writing"
     /\ left # {}
     /\ store' = [store EXCEPT ![m].state = "consolidated", ![m].into = plan.primaryId]
     /\ attempts' = [attempts EXCEPT ![a].written = @ \cup {m}]
     /\ txLast' = NoTx
     /\ UNCHANGED <<lockedBy, searchVars, extractorVars>>

\* a failure path that leaves the partial writes in place
Rollback_Missing(s, before, written) == s

\* the roll back of the writes a failed commit has made
Rollback(s, before, written) ==
  [id \in DOMAIN s |-> IF id \in written THEN before[id] ELSE s[id]]

\* storage rejects the next write of the commit: the writes made so far are
\* rolled back and the commit raises a typed error
CommitWriteFails(a) ==
  /\ attempts[a].pc = "writing"
  /\ store' = Rollback(store, attempts[a].before, attempts[a].written)
  /\ lockedBy' = [id \in StoredIds |-> IF lockedBy[id] = a THEN 0 ELSE lockedBy[id]]
  /\ attempts' = [attempts EXCEPT ![a].pc = "failed", ![a].written = {}]
  /\ txLast' = [NoTx EXCEPT !.op = "commit", !.attempt = a, !.plan = attempts[a].plan,
                            !.outcome = "failed", !.error = "StorageFailure",
                            !.before = attempts[a].before,
                            !.written = attempts[a].written,
                            !.call = attempts[a].calls,
                            !.succeededBefore = attempts[a].succeeded]
  /\ UNCHANGED <<searchVars, extractorVars>>

\* the write that updates the primary, which ends the transaction: commit
\* returns {consolidated: count}
CommitPrimary(a) ==
  LET plan == attempts[a].plan
  IN /\ attempts[a].pc = "writing"
     /\ attempts[a].written = plan.memberIds
     /\ store' = [store EXCEPT ![plan.primaryId].merged = @ \o IdsInOrder(plan.memberIds)]
     /\ lockedBy' = [id \in StoredIds |-> IF lockedBy[id] = a THEN 0 ELSE lockedBy[id]]
     /\ attempts' = [attempts EXCEPT ![a].pc = "committed", ![a].succeeded = @ + 1]
     /\ txLast' = [NoTx EXCEPT !.op = "commit", !.attempt = a, !.plan = plan,
                               !.outcome = "committed",
                               !.before = attempts[a].before,
                               !.written = attempts[a].written,
                               !.call = attempts[a].calls,
                               !.succeededBefore = attempts[a].succeeded,
                               !.consolidated = Cardinality(plan.memberIds)]
     /\ UNCHANGED <<searchVars, extractorVars>>

----------------------------------------------------------------------------
(* Search Orchestrator (spec 4.4)                                          *)

\* the records behind the query capability, oldest first
SearchRecords ==
  << [id |-> 1, namespace |-> "A", words |-> <<W_note, W_deadline>>, importance |-> 3,
      category |-> "work"],
     [id |-> 2, namespace |-> "A", words |-> <<W_urgent, W_note, W_note>>, importance |-> 1,
      category |-> "work"],
     [id |-> 3, namespace |-> "B", words |-> <<W_note>>, importance |-> 3,
      category |-> "work"],
     [id |-> 4, namespace |-> "A", words |-> <<W_note, W_project>>, importance |-> 2,
      category |-> "personal"],
     [id |-> 5, namespace |-> "A", words |-> <<W_work, W_project>>, importance |-> 3,
      category |-> "work"] >>

Filter(field, operator, value) == [field |-> field, operator |-> operator, value |-> value]

Operators == {"eq", "ne", "gt", "gte", "lt", "lte", "in", "contains", "like"}

\* a filter whose field or operator is unknown is rejected
InvalidFilter(f) == f.field \notin {"importance", "category"} \/ f.operator \notin Operators

\* does record r pass the metadata filter f
FilterHolds(f, r) ==
  LET v == r[f.field]
  IN CASE f.operator = "eq" -> v = f.value
       [] f.operator = "ne" -> v # f.value
       [] f.operator = "gt" -> v > f.value
       [] f.operator = "gte" -> v >= f.value
       [] f.operator = "lt" -> v < f.value
       [] f.operator = "lte" -> v <= f.value
       [] f.operator = "in" -> v \in f.value
       [] OTHER -> v = f.value

\* the structural part of a query: the namespace and every metadata filter
PassesFilters(r, options) ==
  /\ r.namespace = options.namespace
  /\ \A f \in options.metadataFilters : FilterHolds(f, r)

\* a structural part that lets a record pass when any one filter holds
PassesAnyFilter(r, options) ==
  /\ r.namespace = options.namespace
  /\ \/ options.metadataFilters = {}
     \/ \E f \in options.metadataFilters : FilterHolds(f, r)

\* number of words of r the native index matches with the query
NativeScore(r, query) == Cardinality({i \in 1..Len(r.words) : r.words[i] = query})

\* the substring test of the fallback matcher
LikeMatches(r, query) == \E i \in 1..Len(r.words) : Includes(r.words[i], query)

\* insertion into a list ordered by rank descending, after its equals
RECURSIVE InsertRanked(_, _)
InsertRanked(x, arr) ==
  IF Len(arr) = 0 THEN <<x>>
  ELSE IF x.rank > arr[1].rank THEN <<x>> \o arr
  ELSE <<arr[1]>> \o InsertRanked(x, Tail(arr))

\* a stable sort by rank descending
RECURSIVE RankSort(_)
RankSort(arr) ==
  IF Len(arr) = 0 THEN <<>>
  ELSE InsertRanked(arr[Len(arr)], RankSort(SubSeq(arr, 1, Len(arr) - 1)))

\* the ids of the first `limit` entries in rank order
TopIds(arr, limit) ==
  LET ranked == RankSort(arr)
  IN [i \in 1..Min(Len(ranked), limit) |-> ranked[i].id]

\* the native-index path: word matches that pass the namespace and the
\* filters, by score descending and then recency descending
nativeSearch(records, query, options) ==
  LET Matches(r) == NativeScore(r, query) > 0 /\ PassesFilters(r, options)
      matching == SelectSeq(records, Matches)
  IN TopIds([i \in 1..Len(matching) |->
               [id |-> matching[i].id,
                rank |-> NativeScore(matching[i], query) * (Len(records) + 1)
                           + matching[i].id]],
            options.limit)

\* a fallback matcher that combines the metadata filters with OR
fallbackSearch_AnyFilter(records, query, options) ==
  LET Matches(r) == LikeMatches(r, query) /\ PassesAnyFilter(r, options)
      matching == SelectSeq(records, Matches)
  IN TopIds([i \in 1..Len(matching) |-> [id |-> matching[i].id, rank |-> matching[i].id]],
            options.limit)

\* the fallback matcher: substring matches that pass the namespace and the
\* filters, by recency descending
fallbackSearch(records, query, options) ==
  LET Matches(r) == LikeMatches(r, query) /\ PassesFilters(r, options)
      matching == SelectSeq(records, Matches)
  IN TopIds([i \in 1..Len(matching) |-> [id |-> matching[i].id, rank |-> matching[i].id]],
            options.limit)

NoSearch ==
  [op |-> "none", path |-> "none", query |-> <<>>,
   options |-> [namespace |-> "A", limit |-> 0, metadataFilters |-> {}],
   error |-> "none", results |-> <<>>]

SearchIdle ==
  /\ nativeAvailable = TRUE
  /\ searchLast = NoSearch

\* search(query, options): invalid filters are rejected; the call goes to
\* the native index when it is available and to the fallback matcher
\* otherwise
search(query, options) ==
  LET path == IF nativeAvailable THEN "native" ELSE "fallback"
      call == [NoSearch EXCEPT !.op = "search", !.path = path, !.query = query,
                               !.options = options]
  IN /\ searchLast' =
          IF \E f \in options.metadataFilters : InvalidFilter(f)
            THEN [call EXCEPT !.error = "InvalidFilter"]
          ELSE IF nativeAvailable
            THEN [call EXCEPT !.results = nativeSearch(SearchRecords, query, options)]
          ELSE [call EXCEPT !.results = fallbackSearch(SearchRecords, query, options)]
     /\ UNCHANGED <<nativeAvailable, consolidationVars, extractorVars>>

\* the native index becomes available, or is lost
indexStatusChanges ==
  /\ nativeAvailable' = ~nativeAvailable
  /\ searchLast' = NoSearch
  /\ UNCHANGED <<consolidationVars, extractorVars>>

----------------------------------------------------------------------------
(* IdGenerator (core/infrastructure/database/utils/id-generator.ts).       *)
(* An ID is a string; a number is the sequence of its decimal digits       *)
(* without leading zeros (Date.now() needs 13 digits).                     *)

Underscore == <<"_">>

HexChars == DigitChars \cup {"a","b","c","d","e","f","A","B","C","D","E","F"}

\* /^[0-9a-f]{8}-[0-9a-f]{4}-[1-5][0-9a-f]{3}-[89ab][0-9a-f]{3}-[0-9a-f]{12}$/i
isValidUUID(uuid) ==
  /\ Len(uuid) = 36
  /\ \A i \in 1..36 :
       IF i \in {9, 14, 19, 24} THEN uuid[i] = "-"
       ELSE IF i = 15 THEN uuid[i] \in {"1","2","3","4","5"}
       ELSE IF i = 20 THEN uuid[i] \in {"8","9","a","b","A","B"}
       ELSE uuid[i] \in HexChars

\* String.prototype.split(sep) for a separator of one character
RECURSIVE split(_, _, _, _)
split(s, sep, i, part) ==
  IF i > Len(s) THEN <<part>>
  ELSE IF s[i] = sep THEN <<part>> \o split(s, sep, i + 1, <<>>)
  ELSE split(s, sep, i + 1, Append(part, s[i]))

\* the decimal digits at the start of s
RECURSIVE LeadingDigits(_)
LeadingDigits(s) ==
  IF Len(s) = 0 \/ s[1] \notin DigitChars THEN <<>>
  ELSE <<s[1]>> \o LeadingDigits(Tail(s))

\* a digit sequence without its leading zeros ("0" for zero)
RECURSIVE Canonical(_)
Canonical(d) ==
  IF Len(d) > 1 /\ d[1] = "0" THEN Canonical(Tail(d)) ELSE d

\* parseInt(s, 10) for a string without sign or leading blanks: the number
\* written by the leading digits, None for NaN
parseInt(s) ==
  IF Len(LeadingDigits(s)) = 0 THEN None ELSE Some(Canonical(LeadingDigits(s)))

DigitOrder == <<"0","1","2","3","4","5","6","7","8","9">>

DigitValue(c) == CHOOSE v \in 0..9 : DigitOrder[v + 1] = c

\* a < b for two numbers
RECURSIVE NumLess(_, _)
NumLess(a, b) ==
  IF Len(a) /= Len(b) THEN Len(a) < Len(b)
  ELSE IF Len(a) = 0 THEN FALSE
  ELSE IF a[1] /= b[1] THEN DigitValue(a[1]) < DigitValue(b[1])
  ELSE NumLess(Tail(a), Tail(b))

\* 946684800000, the first millisecond of 2000
MinTimestamp == <<"9","4","6","6","8","4","8","0","0","0","0","0">>

\* 4102444800000, the first millisecond of 2100
MaxTimestamp == <<"4","1","0","2","4","4","4","8","0","0","0","0","0">>

\* `${prefix}_${Date.now()}_${uuidv4()}`
generatePrefixedId(prefix, now, uuid) ==
  prefix \o Underscore \o now \o Underscore \o uuid

\* generateRecordId(type)
generateRecordId(type, now, uuid) ==
  generatePrefixedId(IF type = "chat" THEN <<"c","h","a","t","_","r","e","c","o","r","d">>
                     ELSE <<"e","m","b","e","d","d","i","n","g","_","r","e","c","o","r","d">>,
                     now, uuid)

\* generateTimestampedId(prefix?): an absent or empty prefix is falsy
generateTimestampedId(prefix, now, uuid) ==
  IF IsSome(prefix) /\ Len(prefix[1]) > 0
    THEN prefix[1] \o Underscore \o now \o Underscore \o uuid
    ELSE now \o Underscore \o uuid

\* extractTimestampFromId(id): None for null
extractTimestampFromId(id) ==
  IF Len(id) = 0 THEN None
  ELSE
    LET parts == split(id, "_", 1, <<>>)
    IN IF Len(parts) < 2 THEN None
       ELSE IF ~(\/ Len(parts) = 3 /\ isValidUUID(parts[3])
                 \/ Len(parts) = 2 /\ isValidUUID(parts[2]))
         THEN None
       ELSE The({ IF \/ ~IsSome(timestamp)
                     \/ NumLess(timestamp[1], MinTimestamp)
                     \/ NumLess(MaxTimestamp, timestamp[1])
                    THEN None ELSE timestamp
                  : timestamp \in {parseInt(IF Len(parts) = 3 THEN parts[2] ELSE parts[1])} })

\* the call record of a generator that returned id at the clock reading now
Generated(by, now, id) ==
  [NoCall EXCEPT !.op = by, !.outcome = "generated", !.text = id,
                 !.ms = <<[by |-> by, now |-> now]>>]

\* IdGenerator.generateId()
CallGenerateId(uuid) ==
  /\ last' = Generated("generateId", <<>>, uuid)
  /\ UNCHANGED <<consolidationVars, searchVars>>
  /\ UNCHANGED <<batch, build, config, extractionRules, categoryCache, hierarchy,
                 reLastIndex, pending, blocked>>

\* IdGenerator.generatePrefixedId(prefix)
CallGeneratePrefixedId(prefix, now, uuid) ==
  /\ last' = Generated("generatePrefixedId", now, generatePrefixedId(prefix, now, uuid))
  /\ UNCHANGED <<consolidationVars, searchVars>>
  /\ UNCHANGED <<batch, build, config, extractionRules, categoryCache, hierarchy,
                 reLastIndex, pending, blocked>>

\* IdGenerator.generateRecordId(type)
CallGenerateRecordId(type, now, uuid) ==
  /\ last' = Generated("generateRecordId", now, generateRecordId(type, now, uuid))
  /\ UNCHANGED <<consolidationVars, searchVars>>
  /\ UNCHANGED <<batch, build, config, extractionRules, categoryCache, hierarchy,
                 reLastIndex, pending, blocked>>

\* IdGenerator.generateTimestampedId(prefix?)
CallGenerateTimestampedId(prefix, now, uuid) ==
  /\ last' = Generated("generateTimestampedId", now, generateTimestampedId(prefix, now, uuid))
  /\ UNCHANGED <<consolidationVars, searchVars>>
  /\ UNCHANGED <<batch, build, config, extractionRules, categoryCache, hierarchy,
                 reLastIndex, pending, blocked>>

\* IdGenerator.extractTimestampFromId(id) on the ID just generated
CallExtractTimestamp ==
  /\ last.outcome = "generated"
  /\ last' = [last EXCEPT !.op = "extractTimestampFromId", !.outcome = "returned",
                          !.results = <<extractTimestampFromId(last.text)>>]
  /\ UNCHANGED <<consolidationVars, searchVars>>
  /\ UNCHANGED <<batch, build, config, extractionRules, categoryCache, hierarchy,
                 reLastIndex, pending, blocked>>

----------------------------------------------------------------------------
(* Memori.applyDeltas.  Its source file is not in src/; it is modelled     *)
(* from the contract of src/core/types/memory-operations.ts and from the   *)
(* calls of tests/unit/core/Memori.memoryUpdates.test.ts.                  *)

\* a delta: its type, its targetId if any, whether it carries a
\* relationship payload
Delta(type, targetId, relationship) ==
  [type |-> type, targetId |-> targetId, relationship |-> relationship]

\* the outcome of one delta when failures are swallowed without a record
ApplyOne_Silent(records, delta) ==
  IF delta.type \in {"note", "playbook_entry"}
    THEN [ok |-> TRUE, error |-> "none"]
  ELSE IF delta.type \in {"correction", "refinement"}
    THEN IF ~IsSome(delta.targetId)
           THEN [ok |-> TRUE, error |-> "none"]
         ELSE IF delta.targetId[1] \notin DOMAIN records
           THEN [ok |-> FALSE, error |-> "update failed"]
         ELSE [ok |-> TRUE, error |-> "none"]
  ELSE IF delta.type = "relationship"
    THEN IF delta.relationship THEN [ok |-> TRUE, error |-> "none"]
         ELSE [ok |-> FALSE, error |-> "requires relationship"]
  ELSE [ok |-> FALSE, error |-> "unsupported type"]

\* the outcome of one delta: a note is recorded, a correction or a
\* refinement updates the memory its targetId names, a relationship delta
\* updates the relationships its payload names
ApplyOne(records, delta) ==
  IF delta.type \in {"note", "playbook_entry"}
    THEN [ok |-> TRUE, error |-> "none"]
  ELSE IF delta.type \in {"correction", "refinement"}
    THEN IF ~IsSome(delta.targetId)
           THEN [ok |-> FALSE, error |-> "requires targetId"]
         ELSE IF delta.targetId[1] \notin DOMAIN records
           THEN [ok |-> FALSE, error |-> "update failed"]
         ELSE [ok |-> TRUE, error |-> "none"]
  ELSE IF delta.type = "relationship"
    THEN IF delta.relationship THEN [ok |-> TRUE, error |-> "none"]
         ELSE [ok |-> FALSE, error |-> "requires relationship"]
  ELSE [ok |-> FALSE, error |-> "unsupported type"]

\* the loop over the deltas from position i; acc.applied holds the positions
\* applied, acc.failed the positions that failed with delta and error
RECURSIVE ApplyDeltasFrom(_, _, _, _, _)
ApplyDeltasFrom(records, deltas, i, continueOnError, acc) ==
  IF i > Len(deltas) \/ acc.aborted THEN acc
  ELSE ApplyDeltasFrom(records, deltas, i + 1, continueOnError,
         The({ IF one.ok
                 THEN [acc EXCEPT !.applied = Append(@, i)]
                 ELSE [acc EXCEPT !.failed = Append(@, [index |-> i, delta |-> deltas[i],
                                                         error |-> one.error]),
                                  !.aborted = ~continueOnError]
               : one \in {ApplyOne(records, deltas[i])} }))

\* memori.applyDeltas(deltas, {continueOnError})
applyDeltas(deltas, continueOnError) ==
  /\ last' = [NoCall EXCEPT
                !.op = "applyDeltas", !.outcome = "resolved", !.ms = deltas,
                !.found = continueOnError,
                !.results = <<ApplyDeltasFrom(store, deltas, 1, continueOnError,
                                              [applied |-> <<>>, failed |-> <<>>,
                                               aborted |-> FALSE])>>]
  /\ UNCHANGED <<consolidationVars, searchVars>>
  /\ UNCHANGED <<batch, build, config, extractionRules, categoryCache, hierarchy,
                 reLastIndex, pending, blocked>>

----------------------------------------------------------------------------
(* Inputs                                                                  *)

Meta(content, existingCategories, keywords) ==
  [content |-> content, summary |-> None, existingCategories |-> existingCategories,
   tags |-> None, keywords |-> keywords]

\* the configuration of the unit tests (confidenceThreshold 0.3)
TestPartial == [confidenceThreshold |-> 3000]

\* a store as the tests build it: Work, with Projects under it
WorkProjects ==
  HM_addCategory(HM_addCategory(EmptyHierarchy, S_Work, None), S_Projects, Some(S_Work))

vars == <<extractorVars, serviceVars>>

----------------------------------------------------------------------------
(* Spec: one extractor, its callers and the callers of its mutators        *)

Metadatas ==
  { Meta(Some(W_note), Some(<<S_Projects>>), None),
    Meta(Some(W_note), Some(<<S_Work, S_Projects>>), Some(<<W_aws>>)),
    Meta(Some(W_python), Some(<<S_Work, S_Projects>>), None) }

ConfigUpdates ==
  {[maxCategoriesPerMemory |-> 2], [enableCategoryNormalization |-> FALSE]}

AddableRules == {CustomRules.custom_topic}

RemovableNames == {"custom_topic", "no_such_rule"}

Init ==
  \E b \in {1, 2} :
    /\ Constructed(b, TestPartial, <<>>)
    /\ hierarchy = WorkProjects
    /\ ConsolidationIdle
    /\ SearchIdle

Next ==
  \/ \E m \in Metadatas : ExtractBegin(m, NoTimeout, FALSE)
  \/ ExtractResume
  \/ clearCache
  \/ \E newConfig \in ConfigUpdates : updateConfig(newConfig)
  \/ \E rule \in AddableRules : addExtractionRule(rule)
  \/ \E ruleName \in RemovableNames : removeExtractionRule(ruleName)

Spec == Init /\ [][Next]_vars

----------------------------------------------------------------------------
(* SpecCalls: extractCategories under every kind of pattern, clock and     *)
(* failure                                                                 *)

CallInputs ==
  { Meta(None, None, None),
    Meta(Some(W_note), None, None),
    Meta(Some(W_note), Some(<<S_Work, S_Cpp>>), None),
    Meta(Some(W_note), None, Some(<<W_aws>>)),
    Meta(Some(W_python), None, None) }

\* what the clock does to the match loops of one call (build 2 reads it)
Timeouts == {NoTimeout, [rule |-> "custom_topic", at |-> 1]}

CustomRuleLists ==
  { <<>>, <<CustomRules.custom_topic>>, <<CustomRules.custom_global>>,
    <<CustomRules.custom_star>>, <<CustomRules.custom_empty>>,
    <<CustomRules.custom_invalid>> }

InitCalls ==
  \E b \in {1, 2}, custom \in CustomRuleLists :
    /\ Constructed(b, TestPartial, custom)
    /\ hierarchy = EmptyHierarchy
    /\ ConsolidationIdle
    /\ SearchIdle

NextCalls ==
  \/ \E m \in CallInputs, tmo \in Timeouts, hmFault \in BOOLEAN :
       /\ (build = 1 => tmo = NoTimeout)
       /\ ExtractBegin(m, tmo, hmFault)
  \/ ExtractResume

SpecCalls == InitCalls /\ [][NextCalls]_vars

----------------------------------------------------------------------------
(* SpecHierarchy: extractCategories while the owner of the hierarchy store *)
(* changes it                                                              *)

HierarchyInputs ==
  { Meta(Some(W_note), Some(<<S_Projects>>), None),
    Meta(Some(W_note), Some(<<S_Work>>), None) }

AddableCategories ==
  {<<S_Work, None>>, <<S_Team, None>>, <<S_Projects, Some(S_Work)>>,
   <<S_Projects, Some(S_Team)>>}

InitHierarchy ==
  \E b \in {1, 2} :
    /\ Constructed(b, TestPartial, <<>>)
    /\ hierarchy = EmptyHierarchy
    /\ ConsolidationIdle
    /\ SearchIdle

NextHierarchy ==
  \/ \E m \in HierarchyInputs : ExtractBegin(m, NoTimeout, FALSE)
  \/ ExtractResume
  \/ \E c \in AddableCategories : addCategory(c[1], c[2])
  \/ clearHierarchy

SpecHierarchy == InitHierarchy /\ [][NextHierarchy]_vars

----------------------------------------------------------------------------
(* SpecCommit: two consolidation attempts over the same records            *)

Plans ==
  { Plan(1, {2, 3}), Plan(4, {3}), Plan(1, {1, 2}), Plan(1, {2, 5}), Plan(1, {2, 6}) }

ExtractorIdle ==
  /\ Constructed(2, TestPartial, <<>>)
  /\ hierarchy = EmptyHierarchy

InitCommit == ExtractorIdle /\ ConsolidationIdle /\ SearchIdle

NextCommit ==
  \/ \E a \in Attempts, plan \in Plans : Validate(a, plan)
  \/ \E a \in Attempts : CommitBegin(a)
  \/ \E a \in Attempts : CommitWriteMember(a)
  \/ \E a \in Attempts : CommitWriteFails(a)
  \/ \E a \in Attempts : CommitPrimary(a)

SpecCommit == InitCommit /\ [][NextCommit]_vars

----------------------------------------------------------------------------
(* SpecSearch: searches while the native index comes and goes              *)

Queries == {W_note, W_project}

MetadataFilters ==
  { Filter("importance", "gte", 2), Filter("category", "eq", "work"),
    Filter("importance", "lt", 3) }

SearchOptions ==
  [namespace : {"A", "B"}, limit : {1, 2}, metadataFilters : SUBSET MetadataFilters]

InitSearch == ExtractorIdle /\ ConsolidationIdle /\ SearchIdle

NextSearch ==
  \/ \E query \in Queries, options \in SearchOptions : search(query, options)
  \/ indexStatusChanges

SpecSearch == InitSearch /\ [][NextSearch]_vars

----------------------------------------------------------------------------
(* SpecExpansion: the revision with hierarchical expansion and category    *)
(* suggestions, switched on and off by its owner                           *)

ExpansionInputs ==
  { Meta(Some(W_note), Some(<<S_Work, S_Projects>>), None),
    Meta(Some(W_project), Some(<<S_Projects>>), None),
    Meta(Some(W_python), None, Some(<<W_aws>>)) }

ExpansionUpdates ==
  { [enableHierarchicalExpansion |-> TRUE], [enableCategorySuggestions |-> TRUE],
    [enableHierarchicalExpansion |-> FALSE, enableCategorySuggestions |-> FALSE],
    [maxCategoriesPerMemory |-> 5] }

InitExpansion ==
  /\ Constructed(2, TestPartial, <<>>)
  /\ hierarchy \in {EmptyHierarchy, WorkProjects}
  /\ ConsolidationIdle
  /\ SearchIdle

NextExpansion ==
  \/ \E m \in ExpansionInputs : ExtractBegin(m, NoTimeout, FALSE)
  \/ ExtractResume
  \/ \E newConfig \in ExpansionUpdates : updateConfig(newConfig)

SpecExpansion == InitExpansion /\ [][NextExpansion]_vars

----------------------------------------------------------------------------
(* SpecMatches: texts in which a pattern matches many times                *)

\* bound on the number of times the tested texts repeat a word
MaxRepeats == 51

\* the word w, n times in a row
Repeated(w, n) ==
  SubSeq([i \in 1..(n * Len(w)) |-> w[((i - 1) % Len(w)) + 1]], 1, n * Len(w))

MatchInputs ==
  { Meta(Some(Repeated(W_a, MaxRepeats)), None, None),
    Meta(Some(Repeated(W_a, 3)), None, None),
    Meta(Some(W_note), Some(<<S_Work>>), Some(<<Repeated(W_a, MaxRepeats - 1)>>)) }

InitMatches ==
  \E b \in {1, 2} :
    /\ Constructed(b, TestPartial, <<CustomRules.custom_letter>>)
    /\ hierarchy = EmptyHierarchy
    /\ ConsolidationIdle
    /\ SearchIdle

NextMatches ==
  \/ \E m \in MatchInputs : ExtractBegin(m, NoTimeout, FALSE)
  \/ ExtractResume
  \/ \E ruleName \in {"custom_letter", "work_projects"} : removeExtractionRule(ruleName)
  \/ addExtractionRule(CustomRules.custom_letter)

SpecMatches == InitMatches /\ [][NextMatches]_vars

----------------------------------------------------------------------------
(* SpecTimeout: extractCategories while the clock runs past the budget of  *)
(* a rule                                                                  *)

W_note_note == W_note \o <<" ">> \o W_note

TimeoutInputs ==
  { Meta(Some(W_note_note), None, Some(<<W_aws>>)),
    Meta(Some(W_note), Some(<<S_Work>>), Some(<<W_aws>>)),
    Meta(Some(W_note_note), Some(<<S_Work>>), None) }

\* the budget of rule custom_topic runs out at its first or second pass
TimeoutCases ==
  {NoTimeout, [rule |-> "custom_topic", at |-> 1], [rule |-> "custom_topic", at |-> 2]}

InitTimeout ==
  \E b \in {1, 2} :
    /\ Constructed(b, TestPartial, <<CustomRules.custom_topic, CustomRules.custom_global>>)
    /\ hierarchy = EmptyHierarchy
    /\ ConsolidationIdle
    /\ SearchIdle

NextTimeout ==
  \/ \E m \in TimeoutInputs, tmo \in TimeoutCases : ExtractBegin(m, tmo, FALSE)
  \/ ExtractResume
  \/ clearCache

SpecTimeout == InitTimeout /\ [][NextTimeout]_vars

----------------------------------------------------------------------------
(* SpecLongText: extractCategories on metadata whose parts reach the size  *)
(* limit of the text the rules are matched against                         *)

W_z == <<"z">>

LongTextInputs ==
  { \* the first part alone is longer than the limit
    Meta(Some(Repeated(W_z, maxTextLength + 1)), None, None),
    Meta(Some(W_note), None, Some(<<W_a>>)),
    Meta(Some(W_a), Some(<<S_Work>>), None),
    Meta(Some(<<"y">>), None, Some(<<W_note>>)) }

InitLongText ==
  \E b \in {1, 2} :
    /\ Constructed(b, TestPartial, <<CustomRules.custom_topic>>)
    /\ hierarchy = EmptyHierarchy
    /\ ConsolidationIdle
    /\ SearchIdle

NextLongText ==
  \/ \E m \in LongTextInputs : ExtractBegin(m, NoTimeout, FALSE)
  \/ ExtractResume

SpecLongText == InitLongText /\ [][NextLongText]_vars

----------------------------------------------------------------------------
(* SpecBatch: processBatchWithHierarchy next to extractCategories while    *)
(* the owner of the store adds categories                                  *)

M_noteWork == Meta(Some(W_note), Some(<<S_Work>>), None)
M_nothing == Meta(Some(W_z), None, None)
M_noteAws == Meta(Some(W_note_note), None, Some(<<W_aws>>))

BatchMetadatas == {M_noteWork, M_noteAws}

BatchInputs ==
  { <<M_nothing>>, <<M_noteWork, M_nothing>>, <<M_noteAws>> }

InitBatch ==
  \E b \in {1, 2} :
    /\ Constructed(b, TestPartial, <<CustomRules.custom_topic>>)
    /\ hierarchy = EmptyHierarchy
    /\ ConsolidationIdle
    /\ SearchIdle

NextBatch ==
  \/ \E ms \in BatchInputs : ProcessBatchBegin(ms)
  \/ ProcessBatchResume
  \/ \E m \in BatchMetadatas : ExtractBegin(m, NoTimeout, FALSE)
  \/ ExtractResume
  \/ addCategory(S_Work, None)
  \/ clearHierarchy

SpecBatch == InitBatch /\ [][NextBatch]_vars

----------------------------------------------------------------------------
(* SpecCache: extractCategories on metadata with pairwise distinct keys    *)

\* a size the cache would have to stay within
CacheBound == 3

\* CacheBound + 1 metadata with pairwise distinct contents (and keys)
DistinctInputs ==
  { Meta(Some(Repeated(W_z, n)), None, None) : n \in 1..(CacheBound + 1) }

InitCache ==
  \E b \in {1, 2} :
    /\ Constructed(b, TestPartial, <<>>)
    /\ hierarchy = EmptyHierarchy
    /\ ConsolidationIdle
    /\ SearchIdle

NextCache ==
  \/ \E m \in DistinctInputs : ExtractBegin(m, NoTimeout, FALSE)
  \/ ExtractResume

SpecCache == InitCache /\ [][NextCache]_vars

----------------------------------------------------------------------------
(* SpecStore: the owner of the hierarchy store adds, imports and clears    *)

S_Meetings == <<"M","e","e","t","i","n","g","s">>
S_work == <<"w","o","r","k">>

StoreCategories ==
  {<<S_Work, None>>, <<S_Team, None>>, <<S_Projects, Some(S_Work)>>,
   <<S_Projects, Some(S_Team)>>, <<S_Meetings, Some(S_Work \o <<"/">> \o S_Projects)>>,
   <<S_Meetings, Some(S_General)>>, <<S_work, Some(S_Team)>>}

\* what exportHierarchy gave for two stores, and a list that names a child
\* before its parent
ImportInputs ==
  { HM_exportHierarchy(WorkProjects),
    HM_exportHierarchy(HM_addCategory(HM_addCategory(EmptyHierarchy, S_Team, None),
                                      S_Meetings, Some(S_Team))),
    <<[name |-> S_Projects, parentPath |-> Some(S_Work)],
      [name |-> S_Work, parentPath |-> None]>> }

InitStore ==
  \E b \in {1, 2} :
    /\ Constructed(b, TestPartial, <<>>)
    /\ hierarchy = EmptyHierarchy
    /\ ConsolidationIdle
    /\ SearchIdle

NextStore ==
  \/ \E c \in StoreCategories : addCategory(c[1], c[2])
  \/ \E exported \in ImportInputs : importHierarchy(exported)
  \/ clearHierarchy

SpecStore == InitStore /\ [][NextStore]_vars

----------------------------------------------------------------------------
(* SpecDeltas: applyDeltas on lists of deltas, some of which fail          *)

MaxDeltas == 3

DeltaKinds ==
  { Delta("note", None, FALSE),
    Delta("correction", Some(1), FALSE),
    Delta("correction", None, FALSE),
    Delta("refinement", None, FALSE) }

DeltaLists == UNION { [1..n -> DeltaKinds] : n \in 0..MaxDeltas }

InitDeltas == ExtractorIdle /\ ConsolidationIdle /\ SearchIdle

NextDeltas ==
  \E deltas \in DeltaLists, continueOnError \in BOOLEAN : applyDeltas(deltas, continueOnError)

SpecDeltas == InitDeltas /\ [][NextDeltas]_vars

----------------------------------------------------------------------------
(* SpecIds: every generator of IdGenerator, then extractTimestampFromId    *)

\* uuidv4() values
Uuids ==
  { <<"9","b","1","d","e","b","4","d","-","3","b","7","d","-","4","b","a","d","-",
      "9","b","d","d","-","2","b","0","d","7","b","3","d","c","b","6","d">>,
    <<"1","1","0","e","c","5","8","a","-","a","0","f","2","-","4","a","c","4","-",
      "8","3","9","3","-","c","8","6","6","d","8","1","3","b","8","d","1">> }

\* Date.now() readings: 1697905764123, the first millisecond of 2000,
\* 1700000000000
Clock ==
  { <<"1","6","9","7","9","0","5","7","6","4","1","2","3">>,
    MinTimestamp,
    <<"1","7","0","0","0","0","0","0","0","0","0","0","0">> }

Prefixes ==
  { <<"c","h","a","t">>, <<"m","e","m">>, <<"u","s","e","r","_","s","e","s","s","i","o","n">>,
    <<>> }

InitIds == ExtractorIdle /\ ConsolidationIdle /\ SearchIdle

NextIds ==
  \/ \E uuid \in Uuids : CallGenerateId(uuid)
  \/ \E prefix \in Prefixes, now \in Clock, uuid \in Uuids :
       CallGeneratePrefixedId(prefix, now, uuid)
  \/ \E type \in {"chat", "embedding"}, now \in Clock, uuid \in Uuids :
       CallGenerateRecordId(type, now, uuid)
  \/ \E prefix \in {None} \cup {Some(p) : p \in Prefixes}, now \in Clock, uuid \in Uuids :
       CallGenerateTimestampedId(prefix, now, uuid)
  \/ CallExtractTimestamp

SpecIds == InitIds /\ [][NextIds]_vars

----------------------------------------------------------------------------
(* Claims                                                                  *)

\* the first entry of the existingCategories the caller passed, or 'General'
FirstPassedCategory(m) ==
  IF IsSome(m.existingCategories) /\ Len(m.existingCategories[1]) > 0
    THEN m.existingCategories[1][1] ELSE S_General

\* C1: extractCategories never rejects, whatever the input and whatever
\* fails inside; a result built by the fallback has one category, the first
\* entry of the existingCategories the caller passed (or 'General'), with
\* confidence 0.3 and fallback = true.
C1_NeverRejects ==
  last.op = "extractCategories" =>
    /\ last.outcome # "rejected"
    /\ (IsSome(last.result) /\ ~last.fromCache /\ last.result[1].fallback) =>
         /\ Len(last.result[1].categories) = 1
         /\ last.result[1].categories[1].name = FirstPassedCategory(last.m[1])
         /\ last.result[1].categories[1].confidence = 3000
         /\ last.result[1].confidence = 3000

\* C2: the match loop of findMatches performs a bounded number of iterations
\* for every text and every enabled rule, so a call of extractCategories
\* never stays inside it.
C2_MatchLoopBounded ==
  /\ ~blocked
  /\ last.op = "extractCategories" => last.outcome # "hung"

\* C3: a result served from the cache carries, for each of its categories,
\* the hierarchyPath that resolution against the current hierarchy yields.
C3_NoStaleHierarchyPath ==
  (last.op = "extractCategories" /\ last.fromCache) =>
    \A i \in 1..Len(last.result[1].categories) :
      last.result[1].categories[i].hierarchyPath
        = resolveCategoryHierarchy(hierarchy, config, extractionRules,
                                   last.result[1].categories[i].name).fullPath

\* C4: when updateConfig, addExtractionRule, a removeExtractionRule that
\* found its rule, or clearCache returns, the result cache is empty.
C4_MutatorsLeaveCacheEmpty ==
  (\/ last.op \in {"updateConfig", "addExtractionRule", "clearCache"}
   \/ (last.op = "removeExtractionRule" /\ last.found))
    => categoryCache = {}

\* a removeExtractionRule that found its rule returned, and the cache held
\* entries when it was called
C4_Witness ==
  /\ last.op = "removeExtractionRule"
  /\ last.found
  /\ last.cacheBefore > 0
  /\ categoryCache = {}

\* the call that has just acted computed a result for metadata with
\* existingCategories, under a configuration that has metadata extraction
\* enabled and a confidenceThreshold of at most 0.9
C10_Case ==
  /\ last.op = "extractCategories"
  /\ last.outcome = "computed"
  /\ config.enableMetadataExtraction
  /\ config.confidenceThreshold <= 9000
  /\ IsSome(last.m[1].existingCategories)

\* the candidates gathered with confidence 0.9 or more
C10_Strong == {i \in 1..Len(last.candidates) : last.candidates[i].confidence >= 9000}

TxUnchanged(tx) ==
  \A id \in PlanIds(tx.plan) \cap StoredIds : store[id] = tx.before[id]

\* every member of the plan of call tx is consolidated into the primary, and
\* the primary has taken them in
TxFullyMerged(tx) ==
  /\ \A m \in tx.plan.memberIds :
       store[m].state = "consolidated" /\ store[m].into = tx.plan.primaryId
  /\ store[tx.plan.primaryId].merged
       = tx.before[tx.plan.primaryId].merged \o IdsInOrder(tx.plan.memberIds)

\* C5: when commit returns or raises, also after a storage write that fails
\* once some members have been written, the records of the plan are fully
\* merged or exactly as they were before the call; a commit that raises
\* leaves them as they were.
C5_CommitAtomic ==
  txLast.op = "commit" =>
    /\ TxUnchanged(txLast) \/ TxFullyMerged(txLast)
    /\ txLast.outcome = "committed" => TxFullyMerged(txLast)
    /\ txLast.outcome = "failed" => TxUnchanged(txLast)

\* a commit has raised after storage rejected a write that followed the
\* writes of some members
C5_Witness ==
  /\ txLast.op = "commit"
  /\ txLast.outcome = "failed"
  /\ txLast.error = "StorageFailure"
  /\ txLast.written # {}
  /\ TxUnchanged(txLast)

\* C6: of two attempts whose member ids overlap at most one ever commits,
\* in every interleaving; a commit that fails ends with a typed error and
\* has changed nothing.
C6_OverlappingCommits ==
  /\ \A a, b \in Attempts :
       (a # b /\ attempts[a].plan.memberIds \cap attempts[b].plan.memberIds # {})
         => ~(attempts[a].succeeded > 0 /\ attempts[b].succeeded > 0)
  /\ (txLast.op = "commit" /\ txLast.outcome = "failed") =>
       /\ txLast.error \in {"Conflict", "NotFound", "StorageFailure"}
       /\ TxUnchanged(txLast)

\* an attempt has committed, and the other one, with an overlapping plan,
\* called commit while the first was writing and failed with Conflict
C6_Witness ==
  \E a, b \in Attempts :
    /\ a # b
    /\ attempts[a].plan.memberIds \cap attempts[b].plan.memberIds # {}
    /\ attempts[a].succeeded = 1
    /\ attempts[b].pc = "failed"
    /\ attempts[b].raced
    /\ attempts[b].succeeded = 0

\* C7: no member is merged into a primary twice, and a commit called again
\* with a plan that has been committed leaves the records as the first call
\* left them; when it fails, it fails with Conflict or NotFound.
C7_CommitTwice ==
  /\ \A id \in StoredIds :
       \A i, j \in 1..Len(store[id].merged) :
         i # j => store[id].merged[i] # store[id].merged[j]
  /\ (txLast.op = "commit" /\ txLast.succeededBefore > 0) =>
       /\ TxUnchanged(txLast)
       /\ txLast.outcome = "failed" => txLast.error \in {"Conflict", "NotFound"}

\* the second commit of a plan whose first commit succeeded has failed with
\* Conflict
C7_Witness ==
  /\ txLast.op = "commit"
  /\ txLast.call = 2
  /\ txLast.succeededBefore = 1
  /\ txLast.outcome = "failed"
  /\ txLast.error = "Conflict"
  /\ store[txLast.plan.primaryId].merged = IdsInOrder(txLast.plan.memberIds)

\* one of the four conditions that make a plan ineligible holds
C8_Ineligible(plan) ==
  \/ \E id \in PlanIds(plan) : id \notin DOMAIN store
  \/ plan.primaryId \in plan.memberIds
  \/ \E m, n \in plan.memberIds \cap DOMAIN store : store[m].namespace # store[n].namespace
  \/ \E m \in plan.memberIds \cap DOMAIN store :
       \E b \in Attempts : attempts[b].pc = "writing" /\ m \in PlanIds(attempts[b].plan)

\* C8: validateEligibility returns, and it returns isValid = false with at
\* least one reason whenever an id does not exist, the primary is among the
\* members, the members span more than one namespace or a member is the
\* target of an unresolved consolidation; it returns isValid = true only
\* when none of these holds.
C8_ValidateEligibility ==
  txLast.op = "validateEligibility" =>
    /\ txLast.outcome = "returned"
    /\ C8_Ineligible(txLast.plan) =>
         (~txLast.validation.isValid /\ txLast.validation.reasons # {})
    /\ txLast.validation.isValid => ~C8_Ineligible(txLast.plan)

\* validateEligibility has returned isValid = false for a plan whose primary
\* is among its members, with that reason
C8_Witness ==
  /\ txLast.op = "validateEligibility"
  /\ txLast.plan.primaryId \in txLast.plan.memberIds
  /\ ~txLast.validation.isValid
  /\ "the primary is among the members" \in txLast.validation.reasons

\* C9: every record the fallback matcher returns is of the namespace asked
\* for and passes every metadata filter, and it returns at most limit
\* records.
C9_FallbackHonoursFilters ==
  (searchLast.op = "search" /\ searchLast.path = "fallback") =>
    /\ Len(searchLast.results) <= searchLast.options.limit
    /\ \A i \in 1..Len(searchLast.results) :
         LET r == SearchRecords[searchLast.results[i]]
         IN /\ r.namespace = searchLast.options.namespace
            /\ \A f \in searchLast.options.metadataFilters : FilterHolds(f, r)

\* the fallback matcher has answered a search with two filters, filled the
\* limit, and left out a record of the namespace that matches the text and
\* fails a filter
C9_Witness ==
  /\ searchLast.op = "search"
  /\ searchLast.path = "fallback"
  /\ Cardinality(searchLast.options.metadataFilters) = 2
  /\ Len(searchLast.results) = searchLast.options.limit
  /\ \E k \in 1..Len(SearchRecords) :
       /\ SearchRecords[k].namespace = searchLast.options.namespace
       /\ LikeMatches(SearchRecords[k], searchLast.query)
       /\ ~PassesFilters(SearchRecords[k], searchLast.options)

\* the hierarchy path the resolution order gives to a category name: the
\* fullPath of the node of that name, else the suggestion of an enabled
\* hierarchical rule for the name, else the name itself
PathInOrder(h, rules, categoryName) ==
  IF IsSome(HM_getNode(h, categoryName)) THEN HM_getNode(h, categoryName)[1].fullPath
  ELSE IF IsSome(findHierarchySuggestion(rules, categoryName))
    THEN findHierarchySuggestion(rules, categoryName)[1]
  ELSE categoryName

\* C11: every category of a result of extractCategories carries the
\* hierarchyPath the resolution order gives to its name against the
\* hierarchy and the rules the extractor holds when the call is made (the
\* call has just computed its result, or has just answered from the cache).
C11_HierarchyPathInOrder ==
  (/\ last.op = "extractCategories"
   /\ IsSome(last.result)
   /\ (last.outcome = "computed" \/ last.fromCache)) =>
    \A i \in 1..Len(last.result[1].categories) :
      last.result[1].categories[i].hierarchyPath
        = PathInOrder(hierarchy, extractionRules, last.result[1].categories[i].name)

\* C12: in every result of extractCategories that is not the fallback, the
\* categories are in non-increasing order of confidence, each has confidence
\* at least the confidenceThreshold of the extractor, there are at most
\* maxCategoriesPerMemory of them, and primaryCategory is the name of the
\* first one, or 'General' when there is none.
C12_SortedThresholdLimit ==
  (/\ last.op = "extractCategories"
   /\ IsSome(last.result)
   /\ (last.outcome = "computed" \/ last.fromCache)
   /\ ~last.result[1].fallback) =>
    LET categories == last.result[1].categories
    IN /\ \A i \in 1..(Len(categories) - 1) :
            categories[i].confidence >= categories[i + 1].confidence
       /\ \A i \in 1..Len(categories) :
            categories[i].confidence >= config.confidenceThreshold
       /\ Len(categories) <= config.maxCategoriesPerMemory
       /\ last.result[1].primaryCategory
            = IF Len(categories) > 0 THEN categories[1].name ELSE S_General

\* C13: no two categories of a result share a normalized name, and each
\* entry of a result just computed (other than the fallback) has a
\* confidence at least that of every pattern match and of every metadata
\* entry (0.9) of its normalized name.
C13_UniqueHighestConfidence ==
  (last.op = "extractCategories" /\ IsSome(last.result)) =>
    LET categories == last.result[1].categories
        existing == IF config.enableMetadataExtraction
                         /\ IsSome(last.m[1].existingCategories)
                      THEN last.m[1].existingCategories[1] ELSE <<>>
    IN /\ \A i, j \in 1..Len(categories) :
            i # j => categories[i].normalizedName # categories[j].normalizedName
       /\ (last.outcome = "computed" /\ ~last.result[1].fallback) =>
            \A i \in 1..Len(categories) :
              /\ \A k \in 1..Len(last.matches) :
                   normalizeCategory(config, last.matches[k].category)
                       = categories[i].normalizedName
                     => categories[i].confidence >= last.matches[k].confidence
              /\ \A k \in 1..Len(existing) :
                   normalizeCategory(config, existing[k]) = categories[i].normalizedName
                     => categories[i].confidence >= 9000

\* an extractCategories call has resolved, no call is suspended, and caching
\* is enabled
C14_AfterFirstCall ==
  /\ last.op = "extractCategories"
  /\ last.outcome = "resolved"
  /\ pending = <<>>
  /\ config.enableCategoryNormalization

C15_RulesPriorityDescending ==
  \A i \in 1..(Len(extractionRules) - 1) :
    extractionRules[i].priority >= extractionRules[i + 1].priority

\* the number of matches rule `name` contributed to the extraction that has
\* just run
MatchesOf(name) ==
  Cardinality({k \in 1..Len(last.matches) : last.matches[k].rule = name})

\* C16: no rule contributes more than 50 matches to one extraction (rules
\* are told apart by their names, so only names that one rule carries are
\* counted).
C16_MatchesPerRuleCapped ==
  (last.op = "extractCategories" /\ last.outcome = "computed") =>
    \A name \in RuleNames :
      Cardinality({i \in 1..Len(extractionRules) : extractionRules[i].name = name}) <= 1
        => MatchesOf(name) <= 50

\* the matches of the extraction that has just run, without those of rule
\* `name`
MatchesOfOthers(matches, name) == SelectSeq(matches, LAMBDA e : e.rule # name)

\* the budget of a rule ran out in the extraction that has just run, at a
\* pass its loop reached
C17_BudgetRanOut ==
  /\ last.op = "extractCategories"
  /\ last.outcome \in {"computed", "hung", "rejected"}
  /\ IsSome(last.m[1].content)
  /\ last.tmo # NoTimeout
  /\ last.iters[last.tmo.rule] >= last.tmo.at

\* C17: when the budget of a rule runs out at a pass of its loop, the loop
\* stops at that pass, the matches of the earlier passes are kept (the
\* rules tested match once in every pass), every other rule contributes the
\* matches it contributes when no budget runs out, and the call computes a
\* result that is not the fallback.
C17_TimeoutKeepsPartial ==
  C17_BudgetRanOut =>
    /\ last.outcome = "computed"
    /\ ~last.result[1].fallback
    /\ last.iters[last.tmo.rule] = last.tmo.at
    /\ MatchesOf(last.tmo.rule) = last.tmo.at - 1
    /\ MatchesOfOthers(last.matches, last.tmo.rule)
         = MatchesOfOthers(
             extractFromPatterns(build, extractionRules, SortedInPlace(last.m[1]),
                                 [n \in RuleNames |-> 0], NoTimeout).found,
             last.tmo.rule)

\* C18: the text the rules are matched against is never longer than the
\* size limit.
C18_TextWithinCap ==
  (last.op = "extractCategories" /\ last.outcome \in {"computed", "hung"}) =>
    Len(last.text) <= maxTextLength

\* the results the call that has just returned gave to its caller
ReturnedResults ==
  IF last.op = "extractCategories" /\ IsSome(last.result)
       /\ (last.outcome = "resolved" \/ last.fromCache)
    THEN <<last.result[1]>>
  ELSE IF last.op = "processBatchWithHierarchy" /\ last.outcome = "resolved"
    THEN last.results
  ELSE <<>>

\* 0..1 in ten-thousandths
UnitInterval == 0..10000

\* C19: every category returned by extractCategories or
\* processBatchWithHierarchy has its confidence and its relevanceScore in
\* [0,1]; the overall confidence of every result is in [0,1] and is 0 when
\* the result has no category.
C19_ScoresInUnitInterval ==
  \A i \in 1..Len(ReturnedResults) :
    /\ ReturnedResults[i].confidence \in UnitInterval
    /\ Len(ReturnedResults[i].categories) = 0 => ReturnedResults[i].confidence = 0
    /\ \A k \in 1..Len(ReturnedResults[i].categories) :
         /\ ReturnedResults[i].categories[k].confidence \in UnitInterval
         /\ ReturnedResults[i].categories[k].relevanceScore \in UnitInterval

\* the operations of the extraction path
ExtractionOps == {"extractCategories", "processBatchWithHierarchy"}

\* the categories of the results the call that has just returned gave
ReturnedCategories ==
  UNION { {ReturnedResults[i].categories[k] : k \in 1..Len(ReturnedResults[i].categories)}
          : i \in 1..Len(ReturnedResults) }

\* C20: no step of extractCategories (alone or as the calls extractBatch
\* makes) or of processBatchWithHierarchy changes the hierarchy store: its
\* nodes are the same after the step as before it.
C20_ExtractionLeavesHierarchy ==
  [][last'.op \in ExtractionOps => hierarchy' = hierarchy]_vars

\* a batch call has returned a category that has no node in a store that
\* holds other nodes: its path comes from a virtual node
C20_Witness ==
  /\ last.op = "processBatchWithHierarchy"
  /\ last.outcome = "resolved"
  /\ hierarchy # EmptyHierarchy
  /\ \E c \in ReturnedCategories :
       /\ ~IsSome(HM_getNode(hierarchy, c.name))
       /\ Len(c.hierarchyPath) > 0

\* C21: the result cache never holds more than CacheBound entries, whatever
\* extractCategories calls with distinct inputs are made.
C21_CacheBounded == Cardinality(categoryCache) <= CacheBound

\* the operations that change the rules or the configuration or clear the cache
MutatorOps == {"addExtractionRule", "removeExtractionRule", "updateConfig", "clearCache"}

\* C22: when a mutator has returned while an extractCategories call was
\* suspended, the continuation of that call stores nothing: the cache is as
\* the mutator left it.
C22_SuspendedResultNotStored ==
  [][(/\ last.op \in MutatorOps
      /\ last.outcome = "returned"
      /\ Len(pending) > 0
      /\ last'.op = "extractCategories"
      /\ last'.outcome = "resolved"
      /\ ~last'.fromCache)
       => categoryCache' = categoryCache]_vars

\* the names of the ancestors of a node, root first, then its own name,
\* joined by '/'
PathOfNode(h, node) ==
  Join([i \in 1..Len(HM_getAncestors(h, node.name)) |-> HM_getAncestors(h, node.name)[i].name]
         \o <<node.name>>, <<"/">>)

FailedPositions(result) == {result.failed[k].index : k \in 1..Len(result.failed)}

\* the positions of the applied entries of a result
AppliedPositions(result) == {result.applied[k] : k \in 1..Len(result.applied)}

\* C24: applyDeltas resolves.  With continueOnError every delta is once in
\* applied or in failed (never in both, never twice), each failed entry
\* carries its delta, and a correction or refinement without targetId is
\* in failed.  Without continueOnError nothing at or after the first
\* failure is applied and nothing after it is processed.
C24_DeltasAccounted ==
  last.op = "applyDeltas" =>
    LET deltas == last.ms
        result == last.results[1]
    IN /\ last.outcome = "resolved"
       /\ AppliedPositions(result) \cap FailedPositions(result) = {}
       /\ Cardinality(AppliedPositions(result)) = Len(result.applied)
       /\ Cardinality(FailedPositions(result)) = Len(result.failed)
       /\ \A k \in 1..Len(result.failed) :
            result.failed[k].delta = deltas[result.failed[k].index]
       /\ \A i \in AppliedPositions(result) :
            ~(deltas[i].type \in {"correction", "refinement"} /\ ~IsSome(deltas[i].targetId))
       /\ IF last.found
            THEN /\ AppliedPositions(result) \cup FailedPositions(result) = 1..Len(deltas)
                 /\ Len(result.applied) + Len(result.failed) = Len(deltas)
            ELSE /\ Len(result.failed) <= 1
                 /\ \A f \in FailedPositions(result) :
                      AppliedPositions(result) \cup FailedPositions(result) = 1..f

\* a call with continueOnError whose list holds a correction without
\* targetId between two deltas that succeed
C24_Witness ==
  /\ last.op = "applyDeltas"
  /\ last.found
  /\ Len(last.ms) = 3
  /\ last.ms[2] = Delta("correction", None, FALSE)
  /\ AppliedPositions(last.results[1]) = {1, 3}

\* C25: extractTimestampFromId applied to an ID that generatePrefixedId,
\* generateRecordId or generateTimestampedId produced returns the clock
\* reading embedded at generation; applied to a plain UUID it returns null.
C25_TimestampRoundTrip ==
  last.op = "extractTimestampFromId" =>
    IF last.ms[1].by = "generateId"
      THEN last.results[1] = None
      ELSE last.results[1] = Some(last.ms[1].now)

\* what the claim compares of a result: per category its name, confidence
\* and hierarchyPath, then primaryCategory and the overall confidence
Compared(result) ==
  [categories |-> [k \in 1..Len(result.categories) |->
                     [name |-> result.categories[k].name,
                      confidence |-> result.categories[k].confidence,
                      hierarchyPath |-> result.categories[k].hierarchyPath]],
   primaryCategory |-> result.primaryCategory,
   confidence |-> result.confidence]

\* what extractCategories computes for m alone, without the cache, under the
\* rules, the configuration and the hierarchy of the current state
Alone(m) ==
  performExtraction(build, hierarchy, config, extractionRules, SortedInPlace(m),
                    reLastIndex, NoTimeout, FALSE)

\* C26: processBatchWithHierarchy returns one result per input, in input
\* order, and each agrees with what extractCategories returns for that input
\* alone in the names, confidences and hierarchyPaths of its categories, in
\* primaryCategory and in the overall confidence.
C26_BatchAgreesWithSingle ==
  (last.op = "processBatchWithHierarchy" /\ last.outcome = "resolved") =>
    /\ Len(last.results) = Len(last.ms)
    /\ \A i \in 1..Len(last.ms) :
         \E alone \in {Alone(last.ms[i])} :
           /\ alone.status = "ok"
           /\ Compared(last.results[i]) = Compared(alone.result[1])

\* C27: a result served from the cache is the result an uncached extraction
\* of the same metadata yields under the current rules and configuration
\* (so an entry made for a metadata that differs in content, summary,
\* existingCategories, tags, entities, topics or keywords is never served).
C27_CacheTransparent ==
  (last.op = "extractCategories" /\ last.outcome = "resolved" /\ last.fromCache) =>
    \E alone \in {Alone(last.m[1])} :
      /\ alone.status = "ok"
      /\ last.result = alone.result

\* C28: no entry of the result cache holds a fallback result, and no call is
\* served one from the cache.
C28_NoFallbackCached ==
  /\ \A entry \in categoryCache : ~entry.result.fallback
  /\ (last.op = "extractCategories" /\ last.outcome = "resolved" /\ last.fromCache)
       => ~last.result[1].fallback

\* C29: after an extractCategories call the existingCategories and the tags
\* of the metadata object hold the elements the caller passed, in the order
\* the caller passed them.
C29_ArgumentUnchanged ==
  (last.op = "extractCategories" /\ IsSome(last.arg)) =>
    /\ last.arg[1].existingCategories = last.m[1].existingCategories
    /\ last.arg[1].tags = last.m[1].tags

\* the matches a call finds when every RegExp object starts at lastIndex 0
FreshMatches(m, tmo) ==
  extractFromPatterns(build, extractionRules, SortedInPlace(m),
                      [n \in RuleNames |-> 0], tmo).found

\* C30: the matches an extractCategories call finds are the ones found when
\* no RegExp object carries a lastIndex from an earlier call: they depend
\* on the text and the rules only.
C30_MatchesIndependentOfHistory ==
  (last.op = "extractCategories" /\ last.outcome = "computed"
     /\ config.enablePatternExtraction) =>
    last.matches = FreshMatches(last.m[1], last.tmo)

====
